---- MODULE Spec2Model ----
(***************************************************************************)
(* Model of the ATC system's surveillance-and-separation pipeline:         *)
(* PeriodicTask (the periodic runner), Aircraft (the per-aircraft task),   *)
(* RadarSystem (the radar tracker) and the ViolationDetector variants (the *)
(* separation engine) found in the repository.                             *)
(*                                                                         *)
(* Time is a millisecond clock `now` that advances in steps of TickMs.     *)
(* Every region of code that runs under one lock_guard is one atomic       *)
(* action; code that runs between two lock acquisitions is split so that   *)
(* other threads can interleave.                                           *)
(***************************************************************************)
EXTENDS Integers, Sequences, FiniteSets, TLC

VARIABLES
    now,            \* steady_clock / system_clock, in ms
    horizon,        \* the last instant of the clock in this specification, ms
    aborted,        \* std::terminate() has been called: the process is gone
    state_,         \* Aircraft::state_ per callsign (NoAircraft: not constructed)
    running_,       \* PeriodicTask::running_ per task
    thread_,        \* PeriodicTask::thread_ per task: "empty" or "joinable"
    period_,        \* PeriodicTask::period_ per task, ms
    tpc,            \* position of each task's thread in PeriodicTask::run
    cycleStart,     \* the local `start` of PeriodicTask::run, per task
    cpc,            \* position of the controlling thread inside start()/stop()
    stopDone,       \* per task: a call of stop() has returned normally since the last start()
    invalidAdvance, \* callsigns whose updatePosition took the invalid-position branch
    failedCycle,    \* tasks one of whose execute() calls has thrown
    \* RadarSystem
    aircraftR,      \* RadarSystem::aircraft_: the callsigns of the registered aircraft, in order
    tracks_,        \* RadarSystem::tracks_ per callsign (NoTrack: no entry)
    last_primary_scan_,
    last_secondary_scan_,
    rpc,            \* position of the radar thread inside RadarSystem::execute
    execNow,        \* the local `now` of RadarSystem::execute
    radarStart,     \* the instant of the start() that set the radar running, -1 before it
    eligible,       \* callsigns registered, and inside the airspace, since that start()
    \* ViolationDetector
    aircraftD,      \* ViolationDetector::aircraft_: callsigns of the registered aircraft, in order
    last_warning_times_,  \* per key: the instant stored, NoTime when the key is absent
    dpc,            \* position of the detector thread inside checkViolations
    ei, ej,         \* the loop indices i and j of checkViolations (1-based)
    state1,         \* the local state1 of checkViolations
    lastCheck,      \* what the latest iteration of the inner loop read and emitted, in the cycle under way
    predLog,        \* per unordered pair: the instants of its last two predicted-conflict emissions
    \* Aircraft::state_mutex_
    state_mutex_,   \* per callsign: the thread that holds the lock and where it stands
    snapshot,       \* per callsign: the copy the latest getState() returned
    committed,      \* per callsign: state_ as it was when the lock was last released
    \* OperatorConsole, ATCSystem
    command_queue_, \* OperatorConsole::command_queue_
    command_history_, \* OperatorConsole::command_history_
    entered,        \* number of command lines the operator has entered
    processed_commands_, \* OperatorConsole::processed_commands_
    displayed_errors, \* number of calls of OperatorConsole::displayError
    submitted,      \* per target id: the messages handed to sendMessage(), in order
    sending,        \* the message the console thread is blocked on in sendMessage(), or NoMessage
    received,       \* the message the main thread has received and not yet executed, or NoMessage
    applied,        \* per callsign: the commands whose mutation has been applied, in order
    \* the solvers called on their own
    solved,         \* what the latest call of a minimum-separation solver returned
    \* the updates of an aircraft called on their own
    heading_,       \* per callsign: state_.heading, in degrees (followed in SpecUpdates)
    returned,       \* the latest call of an update: its argument, its result and the state before it
    \* the shutdown of the system
    shutdown_,      \* the routine that runs, the components there are, its position and the stops made
    \* the locks of the registries and of the aircraft states
    locking,        \* per thread: the lock and unlock operations of the function it runs, and its position
    starting,       \* PeriodicTask::start called by several threads: running_, thread_, the threads created and each caller's position
    logger_,        \* HistoryLogger: file_operational_, file_mutex_, current_states_ and the position of its thread
    display_,       \* DisplaySystem: display_mutex_, aircraft_, update_count_, the display thread and the controller loop
    qnxChannel      \* QnxChannel: channel_mutex_, the polling thread inside receiveMessage and the sending thread inside sendMessage

pvars == <<now, horizon, aborted, state_, running_, thread_, period_, tpc, cycleStart,
           cpc, stopDone, invalidAdvance, failedCycle>>

rvars == <<aircraftR, tracks_, last_primary_scan_, last_secondary_scan_, rpc, execNow,
           radarStart, eligible>>

dvars == <<aircraftD, last_warning_times_, dpc, ei, ej, state1, lastCheck, predLog>>

mvars == <<state_mutex_, snapshot, committed>>

cvars == <<command_queue_, command_history_, entered, processed_commands_,
           displayed_errors, submitted, sending, received, applied>>

fvars == <<solved, heading_, returned, shutdown_, locking, starting, logger_,
           display_, qnxChannel>>

vars == <<pvars, rvars, dvars, mvars, cvars, fvars>>

----------------------------------------------------------------------------
(* Program constants *)

AIRSPACE_X_MIN == 0
AIRSPACE_X_MAX == 100000
AIRSPACE_Y_MIN == 0
AIRSPACE_Y_MAX == 100000
AIRSPACE_Z_MIN == 15000
AIRSPACE_Z_MAX == 25000
MIN_HORIZONTAL_SEPARATION == 3000
MIN_VERTICAL_SEPARATION == 1000
POSITION_UPDATE_INTERVAL == 1000
VIOLATION_CHECK_INTERVAL == 1000
PSR_SCAN_INTERVAL == 4000
SSR_INTERROGATION_INTERVAL == 1000
MAX_TRACK_AGE_MS == 10000
MIN_TRACK_QUALITY == 30
WARNING_COOLDOWN == 15
PREDICTION_WINDOW == 180
DEFAULT_LOOKAHEAD_TIME == 180

(* Bounds of the model *)

TickMs == 1000             \* granularity of the clock
MaxTimeAircraft == 3       \* SpecAircraft runs the clock for this many ticks
MaxTimeRadar == 6          \* SpecRadar runs the clock for this many ticks
MaxTimeEngine == 2         \* the engine specifications run the clock for this many ticks
MaxRegistered == 2         \* longest aircraft_ vector of the radar and of the detector

----------------------------------------------------------------------------
(* Callsigns and tasks *)

Callsigns == {"A", "B"}
RADAR == "radar"
DETECTOR == "detector"
Tasks == Callsigns \cup {RADAR, DETECTOR}

NoAircraft == [status |-> "NONE"]

Abs(n) == IF n < 0 THEN -n ELSE n

\* Position::isValid
IsValid(p) ==
    /\ p.x >= AIRSPACE_X_MIN /\ p.x <= AIRSPACE_X_MAX
    /\ p.y >= AIRSPACE_Y_MIN /\ p.y <= AIRSPACE_Y_MAX
    /\ p.z >= AIRSPACE_Z_MIN /\ p.z <= AIRSPACE_Z_MAX

Pos(s) == [x |-> s.x, y |-> s.y, z |-> s.z]

Constructed(c) == state_[c] # NoAircraft

\* the two aircraft of the fleets, and an aircraft as constructed at time 0
AC1 == "A"
AC2 == "B"

Aircraft0(x, y, z, vx, vy, vz) ==
    [x |-> x, y |-> y, z |-> z, vx |-> vx, vy |-> vy, vz |-> vz,
     status |-> "ENTERING", timestamp |-> 0]

----------------------------------------------------------------------------
(* Aircraft: construction and commands *)

\* Aircraft::Aircraft: throws (no object) when the initial position is invalid
AircraftCtor(c, p, v) ==
    /\ ~aborted
    /\ ~Constructed(c)
    /\ IsValid(p)
    /\ state_' = [state_ EXCEPT ![c] =
                    [x |-> p.x, y |-> p.y, z |-> p.z,
                     vx |-> v.vx, vy |-> v.vy, vz |-> v.vz,
                     status |-> "ENTERING", timestamp |-> now]]
    /\ UNCHANGED <<now, horizon, aborted, running_, thread_, period_, tpc, cycleStart,
                   cpc, stopDone, invalidAdvance, failedCycle>>
    /\ UNCHANGED <<rvars, dvars, mvars, cvars, fvars>>

\* Aircraft::validateAltitude
ValidateAltitude(alt) == alt >= AIRSPACE_Z_MIN /\ alt <= AIRSPACE_Z_MAX

\* Aircraft::updateAltitude: a rejected value leaves the state alone
UpdateAltitude(c, alt) ==
    /\ ~aborted
    /\ Constructed(c)
    /\ ValidateAltitude(alt)
    /\ state_' = [state_ EXCEPT ![c].z = alt, ![c].timestamp = now]
    /\ UNCHANGED <<now, horizon, aborted, running_, thread_, period_, tpc, cycleStart,
                   cpc, stopDone, invalidAdvance, failedCycle>>
    /\ UNCHANGED <<rvars, dvars, mvars, cvars, fvars>>

\* a declareEmergency() that leaves the status alone
DeclareEmergencyStateKept(s) == s

\* Aircraft::declareEmergency
DeclareEmergencyState(s) == [s EXCEPT !.status = "EMERGENCY"]

DeclareEmergency(c) ==
    /\ ~aborted
    /\ Constructed(c)
    /\ state_' = [state_ EXCEPT ![c] = DeclareEmergencyState(@)]
    /\ UNCHANGED <<now, horizon, aborted, running_, thread_, period_, tpc, cycleStart,
                   cpc, stopDone, invalidAdvance, failedCycle>>
    /\ UNCHANGED <<rvars, dvars, mvars, cvars, fvars>>

\* Aircraft::cancelEmergency
CancelEmergency(c) ==
    /\ ~aborted
    /\ Constructed(c)
    /\ state_' = [state_ EXCEPT ![c].status = "CRUISING"]
    /\ UNCHANGED <<now, horizon, aborted, running_, thread_, period_, tpc, cycleStart,
                   cpc, stopDone, invalidAdvance, failedCycle>>
    /\ UNCHANGED <<rvars, dvars, mvars, cvars, fvars>>

\* Aircraft::getState: a copy taken under the state lock
GetState(c) == state_[c]

----------------------------------------------------------------------------
(* PeriodicTask *)

CtlIdle == [op |-> "idle", task |-> "-"]

\* PeriodicTask::start, first half: the running_ test, running_ = true and the
\* construction of the std::thread temporary, which spawns the thread.
\* A start() on a running task does nothing.
StartSpawn(t) ==
    /\ ~aborted
    /\ cpc = CtlIdle
    /\ tpc[t] = "none" \/ running_[t]
    /\ IF running_[t]
       THEN UNCHANGED <<running_, tpc, cpc, stopDone>>
       ELSE /\ running_' = [running_ EXCEPT ![t] = TRUE]
            /\ tpc' = [tpc EXCEPT ![t] = "loop"]
            /\ cpc' = [op |-> "assign", task |-> t]
            /\ stopDone' = [stopDone EXCEPT ![t] = FALSE]
    /\ IF t = RADAR /\ ~running_[t]
       THEN /\ radarStart' = now
            /\ eligible' = {c \in Callsigns :
                               /\ \E k \in 1..Len(aircraftR) : aircraftR[k] = c
                               /\ IsValid(Pos(state_[c]))}
       ELSE UNCHANGED <<radarStart, eligible>>
    /\ UNCHANGED <<now, horizon, aborted, state_, thread_, period_, cycleStart,
                   invalidAdvance, failedCycle>>
    /\ UNCHANGED <<aircraftR, tracks_, last_primary_scan_, last_secondary_scan_, rpc,
                   execNow, dvars, mvars, cvars, fvars>>

\* PeriodicTask::start, second half: the move-assignment to thread_
StartAssign(t) ==
    /\ ~aborted
    /\ cpc = [op |-> "assign", task |-> t]
    /\ thread_' = [thread_ EXCEPT ![t] = "joinable"]
    /\ cpc' = CtlIdle
    /\ UNCHANGED <<now, horizon, aborted, state_, running_, period_, tpc, cycleStart,
                   stopDone, invalidAdvance, failedCycle>>
    /\ UNCHANGED <<rvars, dvars, mvars, cvars, fvars>>

\* a stop() that leaves running_ alone
StopFlagKept(rs, t) == rs

\* PeriodicTask::stop, first statement: running_ = false
StopFlag(rs, t) == [rs EXCEPT ![t] = FALSE]

\* PeriodicTask::stop called from another thread: running_ = false, then
\* join() when the handle is joinable
StopRequest(t) ==
    /\ ~aborted
    /\ cpc = CtlIdle
    /\ running_' = StopFlag(running_, t)
    /\ IF thread_[t] = "joinable"
       THEN /\ cpc' = [op |-> "join", task |-> t]
            /\ UNCHANGED stopDone
       ELSE /\ cpc' = CtlIdle
            /\ stopDone' = [stopDone EXCEPT ![t] = TRUE]
    /\ UNCHANGED <<now, horizon, aborted, state_, thread_, period_, tpc, cycleStart, invalidAdvance, failedCycle>>
    /\ UNCHANGED <<rvars, dvars, mvars, cvars, fvars>>

\* thread_.join() returns once the thread function has returned
StopJoin(t) ==
    /\ ~aborted
    /\ cpc = [op |-> "join", task |-> t]
    /\ tpc[t] = "exited"
    /\ thread_' = [thread_ EXCEPT ![t] = "empty"]
    /\ cpc' = CtlIdle
    /\ stopDone' = [stopDone EXCEPT ![t] = TRUE]
    /\ UNCHANGED <<now, horizon, aborted, state_, running_, period_, tpc, cycleStart, invalidAdvance, failedCycle>>
    /\ UNCHANGED <<rvars, dvars, mvars, cvars, fvars>>

\* PeriodicTask::run: the while (running_) test and the cycle's `start` stamp.
\* A cycle is begun only while the clock can still reach its next activation.
RunLoopTest(t) ==
    /\ ~aborted
    /\ tpc[t] = "loop"
    /\ running_[t] => now + period_[t] <= horizon
    /\ IF running_[t]
       THEN /\ tpc' = [tpc EXCEPT ![t] = "exec"]
            /\ cycleStart' = [cycleStart EXCEPT ![t] = now]
       ELSE /\ tpc' = [tpc EXCEPT ![t] = "exited"]
            /\ UNCHANGED cycleStart
    /\ UNCHANGED <<now, horizon, aborted, state_, running_, thread_, period_, cpc,
                   stopDone, invalidAdvance, failedCycle>>
    /\ UNCHANGED <<rvars, dvars, mvars, cvars, fvars>>

\* a run() that never sleeps
SleepSkipped(t) == TRUE

\* PeriodicTask::run: next_period = start + current_period has been reached,
\* either because it was not ahead of `end` or because sleep_until has returned
SleepOver(t) == now >= cycleStart[t] + period_[t]

\* PeriodicTask::run after execute(): next_period = start + period_;
\* sleep_until(next_period) when it lies ahead, else go on at once
RunSleep(t) ==
    /\ ~aborted
    /\ tpc[t] = "sleep"
    /\ SleepOver(t)
    /\ tpc' = [tpc EXCEPT ![t] = "loop"]
    /\ UNCHANGED <<now, horizon, aborted, state_, running_, thread_, period_, cycleStart,
                   cpc, stopDone, invalidAdvance, failedCycle>>
    /\ UNCHANGED <<rvars, dvars, mvars, cvars, fvars>>

----------------------------------------------------------------------------
(* Aircraft::execute *)

\* the position one period ahead (dt = POSITION_UPDATE_INTERVAL / 1000.0)
AdvancedPos(s) ==
    [x |-> s.x + (s.vx * POSITION_UPDATE_INTERVAL) \div 1000,
     y |-> s.y + (s.vy * POSITION_UPDATE_INTERVAL) \div 1000,
     z |-> s.z + (s.vz * POSITION_UPDATE_INTERVAL) \div 1000]

\* the valid branch of Aircraft::updatePosition
MovedState(s, p, t) ==
    [s EXCEPT !.x = p.x, !.y = p.y, !.z = p.z, !.timestamp = t,
              !.status = IF s.status = "ENTERING" THEN "CRUISING" ELSE s.status]

\* a validity test that forgets the altitude band
AdvanceAcceptedNoAltitude(p) ==
    /\ p.x >= AIRSPACE_X_MIN /\ p.x <= AIRSPACE_X_MAX
    /\ p.y >= AIRSPACE_Y_MIN /\ p.y <= AIRSPACE_Y_MAX

\* the test `if (new_pos.isValid())` of Aircraft::updatePosition
AdvanceAccepted(p) == IsValid(p)

\* Aircraft::updatePosition as called from Aircraft::execute.  On the invalid
\* branch it calls stop() on its own thread: running_ = false, and join() on
\* the calling thread throws std::system_error when the handle is joinable;
\* when start() has not stored the handle yet, stop() returns.
UpdatePosition(c) ==
    /\ ~aborted
    /\ tpc[c] = "exec"
    /\ Constructed(c)
    /\ LET p == AdvancedPos(state_[c]) IN
       IF AdvanceAccepted(p)
       THEN /\ state_' = [state_ EXCEPT ![c] = MovedState(@, p, now)]
            /\ tpc' = [tpc EXCEPT ![c] = "sleep"]
            /\ UNCHANGED <<running_, stopDone, invalidAdvance>>
       ELSE /\ state_' = [state_ EXCEPT ![c].status = "EXITING"]
            /\ running_' = StopFlag(running_, c)
            /\ invalidAdvance' = invalidAdvance \cup {c}
            /\ IF thread_[c] = "joinable"
               THEN /\ tpc' = [tpc EXCEPT ![c] = "catch"]
                    /\ UNCHANGED stopDone
               ELSE /\ tpc' = [tpc EXCEPT ![c] = "sleep"]
                    /\ stopDone' = [stopDone EXCEPT ![c] = TRUE]
    /\ UNCHANGED <<now, horizon, aborted, thread_, period_, cycleStart, cpc, failedCycle>>
    /\ UNCHANGED <<rvars, dvars, mvars, cvars, fvars>>

\* the catch block of Aircraft::execute: log, declareEmergency()
ExecuteCatch(c) ==
    /\ ~aborted
    /\ tpc[c] = "catch"
    /\ state_' = [state_ EXCEPT ![c] = DeclareEmergencyState(@)]
    /\ tpc' = [tpc EXCEPT ![c] = "sleep"]
    /\ UNCHANGED <<now, horizon, aborted, running_, thread_, period_, cycleStart, cpc,
                   stopDone, invalidAdvance, failedCycle>>
    /\ UNCHANGED <<rvars, dvars, mvars, cvars, fvars>>

----------------------------------------------------------------------------
(* The clock *)

Tick ==
    /\ ~aborted
    /\ now < horizon
    /\ now' = now + TickMs
    /\ UNCHANGED <<horizon, aborted, state_, running_, thread_, period_, tpc, cycleStart,
                   cpc, stopDone, invalidAdvance, failedCycle>>
    /\ UNCHANGED <<rvars, dvars, mvars, cvars, fvars>>

----------------------------------------------------------------------------
(* RadarSystem *)

NoTrack == [quality |-> 0 - 1]

Min(a, b) == IF a < b THEN a ELSE b
Max(a, b) == IF a > b THEN a ELSE b

RemoveAll(reg, c) == SelectSeq(reg, LAMBDA e : e # c)

\* the error that performPrimaryScan adds to a position, std::rand() % 100 - 50
\* per coordinate: two of the triples it can draw
RadarNoise ==
    { [dx |-> 0 - 50, dy |-> 0, dz |-> 0 - 50], [dx |-> 49, dy |-> 49, dz |-> 49] }

\* RadarSystem::addAircraft
RadarAddAircraft(c) ==
    /\ ~aborted
    /\ Constructed(c)
    /\ Len(aircraftR) < MaxRegistered
    /\ aircraftR' = Append(aircraftR, c)
    /\ UNCHANGED <<tracks_, last_primary_scan_, last_secondary_scan_, rpc, execNow,
                   radarStart, eligible>>
    /\ UNCHANGED <<pvars, dvars, mvars, cvars, fvars>>

\* RadarSystem::removeAircraft
RadarRemoveAircraft(c) ==
    /\ ~aborted
    /\ aircraftR' = RemoveAll(aircraftR, c)
    /\ tracks_' = [tracks_ EXCEPT ![c] = NoTrack]
    /\ eligible' = eligible \ {c}
    /\ UNCHANGED <<last_primary_scan_, last_secondary_scan_, rpc, execNow, radarStart>>
    /\ UNCHANGED <<pvars, dvars, mvars, cvars, fvars>>

\* an isAircraftTracked() that does not look at the quality
IsAircraftTrackedAnyQuality(c) == tracks_[c] # NoTrack

\* RadarSystem::isAircraftTracked
IsAircraftTracked(c) ==
    tracks_[c] # NoTrack /\ tracks_[c].quality >= MIN_TRACK_QUALITY

\* AircraftState::callsign of a default-constructed RadarTrack: the empty
\* string.  performPrimaryScan assigns track.state.position only.
DefaultCallsign == ""

\* RadarSystem::performPrimaryScan: the loop over aircraft_, from index k on;
\* a track is created (quality 0) by tracks_[callsign] when the return is valid
RECURSIVE PerformPrimaryScan(_, _, _, _, _)
PerformPrimaryScan(tr, reg, noise, t, k) ==
    IF k > Len(reg) THEN tr
    ELSE LET c == reg[k]
             s == GetState(c)
             detected_pos == [x |-> s.x + noise[k].dx, y |-> s.y + noise[k].dy,
                              z |-> s.z + noise[k].dz]
             quality == IF tr[c] = NoTrack THEN 0 ELSE tr[c].quality
             callsign == IF tr[c] = NoTrack THEN DefaultCallsign ELSE tr[c].callsign
             scanned == [callsign |-> callsign,
                         x |-> detected_pos.x, y |-> detected_pos.y, z |-> detected_pos.z,
                         last_update |-> t, quality |-> Min(100, quality + 10)]
         IN PerformPrimaryScan(IF IsValid(detected_pos) THEN [tr EXCEPT ![c] = scanned] ELSE tr,
                               reg, noise, t, k + 1)

\* an updateTracks() whose decay has no floor
UpdateTracksNoFloor(tr, t) ==
    [c \in Callsigns |->
        IF tr[c] # NoTrack /\ t - tr[c].last_update > 1000
        THEN [tr[c] EXCEPT !.quality = @ - 5]
        ELSE tr[c]]

\* RadarSystem::updateTracks
UpdateTracks(tr, t) ==
    [c \in Callsigns |->
        IF tr[c] # NoTrack /\ t - tr[c].last_update > 1000
        THEN [tr[c] EXCEPT !.quality = Max(0, @ - 5)]
        ELSE tr[c]]

\* RadarSystem::cleanupStaleTracks
CleanupStaleTracks(tr, t) ==
    [c \in Callsigns |->
        IF /\ tr[c] # NoTrack
           /\ \/ t - tr[c].last_update > MAX_TRACK_AGE_MS
              \/ tr[c].quality < MIN_TRACK_QUALITY
        THEN NoTrack
        ELSE tr[c]]

\* RadarSystem::execute, first part: now = steady_clock::now() and the primary
\* scan when PSR_SCAN_INTERVAL has passed since the last one
RadarExecutePrimary ==
    /\ ~aborted
    /\ tpc[RADAR] = "exec"
    /\ rpc = "primary"
    /\ execNow' = now
    /\ IF now - last_primary_scan_ >= PSR_SCAN_INTERVAL
       THEN /\ \E noise \in [1..Len(aircraftR) -> RadarNoise] :
                  tracks_' = PerformPrimaryScan(tracks_, aircraftR, noise, now, 1)
            /\ last_primary_scan_' = now
       ELSE UNCHANGED <<tracks_, last_primary_scan_>>
    /\ rpc' = "secondary"
    /\ UNCHANGED <<aircraftR, last_secondary_scan_, radarStart, eligible>>
    /\ UNCHANGED <<pvars, dvars, mvars, cvars, fvars>>

\* RadarSystem::execute, second part: the secondary interrogation (one position
\* message per track on the channel) when SSR_INTERROGATION_INTERVAL has passed
RadarExecuteSecondary ==
    /\ ~aborted
    /\ tpc[RADAR] = "exec"
    /\ rpc = "secondary"
    /\ last_secondary_scan_' =
           IF execNow - last_secondary_scan_ >= SSR_INTERROGATION_INTERVAL
           THEN execNow ELSE last_secondary_scan_
    /\ rpc' = "update"
    /\ UNCHANGED <<aircraftR, tracks_, last_primary_scan_, execNow, radarStart, eligible>>
    /\ UNCHANGED <<pvars, dvars, mvars, cvars, fvars>>

\* RadarSystem::execute, third part: updateTracks()
RadarUpdateTracks ==
    /\ ~aborted
    /\ tpc[RADAR] = "exec"
    /\ rpc = "update"
    /\ tracks_' = UpdateTracks(tracks_, now)
    /\ rpc' = "cleanup"
    /\ UNCHANGED <<aircraftR, last_primary_scan_, last_secondary_scan_, execNow,
                   radarStart, eligible>>
    /\ UNCHANGED <<pvars, dvars, mvars, cvars, fvars>>

\* RadarSystem::execute, last part: cleanupStaleTracks(), and the return to run()
RadarCleanupStaleTracks ==
    /\ ~aborted
    /\ tpc[RADAR] = "exec"
    /\ rpc = "cleanup"
    /\ tracks_' = CleanupStaleTracks(tracks_, now)
    /\ rpc' = "primary"
    /\ execNow' = 0
    /\ tpc' = [tpc EXCEPT ![RADAR] = "sleep"]
    /\ UNCHANGED <<aircraftR, last_primary_scan_, last_secondary_scan_,
                   radarStart, eligible>>
    /\ UNCHANGED <<now, horizon, aborted, state_, running_, thread_, period_, cycleStart,
                   cpc, stopDone, invalidAdvance, failedCycle, dvars, mvars, cvars, fvars>>

\* An exception leaves execute() of a task whose execute() has no handler of
\* its own (RadarSystem::execute, ViolationDetector::execute of
\* violation_detector.cpp): PeriodicTask::run has no handler either, the
\* exception leaves the thread function and std::terminate() ends the process.
ExecuteThrows(t) ==
    /\ ~aborted
    /\ tpc[t] = "exec"
    /\ failedCycle' = failedCycle \cup {t}
    /\ aborted' = TRUE
    /\ UNCHANGED <<now, horizon, state_, running_, thread_, period_, tpc, cycleStart,
                   cpc, stopDone, invalidAdvance>>
    /\ UNCHANGED <<rvars, dvars, mvars, cvars, fvars>>

----------------------------------------------------------------------------
(* ViolationDetector of src/core/aircraft.cpp *)

NoTime == 0 - 1

\* the keys of last_warning_times_: aircraft1_id + aircraft2_id
Keys == {a \o b : a, b \in Callsigns}

\* unordered pairs of callsigns
Pairs == {{a, b} : a, b \in Callsigns}

NoCheck == [at |-> NoTime]
NoCommand == [to |-> "-"]

\* sqrt(dx * dx + dy * dy) < lim, without leaving 32 bits
HorizontalLess(dx, dy, lim) ==
    /\ Abs(dx) < lim
    /\ Abs(dy) < lim
    /\ dx * dx + dy * dy < lim * lim

\* floor of the square root of n, searched in lo..hi
RECURSIVE SqrtBetween(_, _, _)
SqrtBetween(n, lo, hi) ==
    IF lo >= hi THEN lo
    ELSE LET mid == (lo + hi + 1) \div 2
         IN IF mid * mid <= n THEN SqrtBetween(n, mid, hi) ELSE SqrtBetween(n, lo, mid - 1)

\* ViolationDetector::checkPairViolation
CheckPairViolation(s1, s2) ==
    /\ HorizontalLess(s1.x - s2.x, s1.y - s2.y, MIN_HORIZONTAL_SEPARATION)
    /\ Abs(s1.z - s2.z) < MIN_VERTICAL_SEPARATION

\* ViolationDetector::calculateTimeToMinimumSeparation, in ms (NoTime for -1.0).
\* Lengths are taken in units of 100 (every coordinate and velocity of the
\* fleets below is a multiple of 100) and the quadratic is solved for b / 2:
\* t = (-b/2 +- sqrt((b/2)^2 - a c)) / a.
CalculateTimeToMinimumSeparation(s1, s2) ==
    LET dx == (s2.x - s1.x) \div 100
        dy == (s2.y - s1.y) \div 100
        dvx == (s2.vx - s1.vx) \div 100
        dvy == (s2.vy - s1.vy) \div 100
        a == dvx * dvx + dvy * dvy
        bh == dx * dvx + dy * dvy
        h == MIN_HORIZONTAL_SEPARATION \div 100
        c == dx * dx + dy * dy - h * h
        discriminant == bh * bh - a * c
        root == SqrtBetween(discriminant, 0, 40000)
        t1 == (1000 * (root - bh)) \div a
        t2 == (1000 * (0 - bh - root)) \div a
    IN IF a = 0 THEN 0
       ELSE IF discriminant < 0 THEN NoTime
       ELSE IF t1 < 0 /\ t2 < 0 THEN NoTime
       ELSE IF t1 < 0 THEN t2
       ELSE IF t2 < 0 THEN t1
       ELSE Min(t1, t2)

\* ViolationDetector::predictPosition, the time in ms
PredictPosition(s, t) ==
    [x |-> s.x + (s.vx * t) \div 1000,
     y |-> s.y + (s.vy * t) \div 1000,
     z |-> s.z + (s.vz * t) \div 1000]

\* ViolationDetector::predictViolation; when no time is found the other fields
\* are left as they were and are not read
PredictViolation(s1, s2) ==
    LET t == CalculateTimeToMinimumSeparation(s1, s2)
        pos1 == PredictPosition(s1, t)
        pos2 == PredictPosition(s2, t)
    IN [time_to_violation |-> t,
        conflict_point |->
            IF t >= 0 /\ t <= PREDICTION_WINDOW * 1000
            THEN [x |-> (pos1.x + pos2.x) \div 2, y |-> (pos1.y + pos2.y) \div 2,
                  z |-> (pos1.z + pos2.z) \div 2]
            ELSE [x |-> 0, y |-> 0, z |-> 0],
        requires_immediate_action |->
            /\ t >= 0
            /\ t < 60 * 1000
            /\ HorizontalLess(pos1.x - pos2.x, pos1.y - pos2.y,
                              (MIN_HORIZONTAL_SEPARATION * 12) \div 10)]

\* ViolationDetector::validatePrediction
ValidatePrediction(prediction) ==
    /\ prediction.time_to_violation >= 0
    /\ prediction.time_to_violation <= PREDICTION_WINDOW * 1000
    /\ IsValid(prediction.conflict_point)

\* the key of handlePredictedConflict
CooldownKey(aircraft1_id, aircraft2_id) == aircraft1_id \o aircraft2_id

\* the cooldown test of handlePredictedConflict
Suppressed(lwt, key, t) ==
    /\ lwt[key] # NoTime
    /\ (t - lwt[key]) \div 1000 < WARNING_COOLDOWN

\* a validation that accepts every value
ValidateResolutionActionSkipped(value) == TRUE

\* ViolationDetector::validateResolutionAction for an ALTITUDE_CHANGE, the one
\* type calculateResolutionActions creates
ValidateResolutionAction(value) == value >= AIRSPACE_Z_MIN /\ value <= AIRSPACE_Z_MAX

\* calculateResolutionActions and executeResolutionAction: the one altitude
\* command they send, NoCommand when an aircraft is not found or the value fails
\* validateResolutionAction
ResolutionCommand(reg, aircraft1_id, aircraft2_id) ==
    LET found1 == \E k \in 1..Len(reg) : reg[k] = aircraft1_id
        found2 == \E k \in 1..Len(reg) : reg[k] # aircraft1_id /\ reg[k] = aircraft2_id
        z1 == GetState(aircraft1_id).z
        z2 == GetState(aircraft2_id).z
        target == IF z1 <= z2 THEN aircraft1_id ELSE aircraft2_id
        value == Min(z1, z2) - MIN_VERTICAL_SEPARATION
    IN IF found1 /\ found2 /\ ValidateResolutionAction(value)
       THEN [to |-> target, altitude |-> value]
       ELSE NoCommand

\* ViolationDetector::addAircraft (a null pointer is rejected)
DetectorAddAircraft(c) ==
    /\ ~aborted
    /\ dpc = "idle"
    /\ Constructed(c)
    /\ Len(aircraftD) < MaxRegistered
    /\ aircraftD' = Append(aircraftD, c)
    /\ UNCHANGED <<last_warning_times_, dpc, ei, ej, state1, lastCheck, predLog>>
    /\ UNCHANGED <<pvars, rvars, mvars, cvars, fvars>>

\* last_warning_times_.erase(callsign)
EraseWarningTime(lwt, callsign) ==
    IF callsign \in Keys THEN [lwt EXCEPT ![callsign] = NoTime] ELSE lwt

\* ViolationDetector::removeAircraft
DetectorRemoveAircraft(callsign) ==
    /\ ~aborted
    /\ dpc = "idle"
    /\ aircraftD' = RemoveAll(aircraftD, callsign)
    /\ last_warning_times_' = EraseWarningTime(last_warning_times_, callsign)
    /\ UNCHANGED <<dpc, ei, ej, state1, lastCheck, predLog>>
    /\ UNCHANGED <<pvars, rvars, mvars, cvars, fvars>>

\* checkViolations, the outer loop: (on entry: lock_guard on mutex_, i = 0,) the
\* test i < size(), state1 = getState(), j = i + 1; at the end the lock is
\* released and execute() returns
EngineOuter ==
    /\ ~aborted
    /\ tpc[DETECTOR] = "exec"
    /\ dpc \in {"idle", "outer"}
    /\ LET i == IF dpc = "idle" THEN 1 ELSE ei
       IN IF i > Len(aircraftD)
          THEN /\ dpc' = "idle"
               /\ tpc' = [tpc EXCEPT ![DETECTOR] = "sleep"]
               /\ ei' = 1
               /\ ej' = 1
               /\ state1' = NoAircraft
               /\ lastCheck' = NoCheck
          ELSE /\ state1' = GetState(aircraftD[i])
               /\ ei' = i
               /\ ej' = i + 1
               /\ dpc' = "inner"
               /\ UNCHANGED <<tpc, lastCheck>>
    /\ UNCHANGED <<aircraftD, last_warning_times_, predLog>>
    /\ UNCHANGED <<now, horizon, aborted, state_, running_, thread_, period_, cycleStart,
                   cpc, stopDone, invalidAdvance, failedCycle, rvars, mvars, cvars, fvars>>

\* a handling of current violations that an active cooldown entry holds back
CurrentHandledUnlessCooling(violation, cooling) == violation /\ ~cooling

\* checkViolations: a pair for which checkPairViolation returned true goes to
\* handleImmediateViolation, which tests nothing before it logs, resolves and alerts
CurrentHandled(violation, cooling) == violation

\* what one iteration of the inner loop emits for the states it has read
PairOutcome(reg, lwt, id1, id2, s1, s2, t) ==
    LET prediction == PredictViolation(s1, s2)
        cooling == \E k \in {id1 \o id2, id2 \o id1} : Suppressed(lwt, k, t)
        current == CurrentHandled(CheckPairViolation(s1, s2), cooling)
        predicted == /\ ~current
                     /\ ValidatePrediction(prediction)
                     /\ ~Suppressed(lwt, CooldownKey(id1, id2), t)
    IN [at |-> t, id1 |-> id1, id2 |-> id2, s1 |-> s1, s2 |-> s2,
        current |-> current, predicted |-> predicted, cooling |-> cooling,
        resolution |-> current \/ predicted,
        command |-> IF current \/ predicted THEN ResolutionCommand(reg, id1, id2)
                    ELSE NoCommand,
        alert |-> current \/ (predicted /\ prediction.requires_immediate_action)]

\* the predicted-conflict emissions of a pair: the last one and the one before
LogPrediction(log, outcome) ==
    IF outcome.predicted
    THEN [log EXCEPT ![{outcome.id1, outcome.id2}] = <<@[2], outcome.at>>]
    ELSE log

\* checkViolations, the inner loop: the test j < size(), state2 = getState(),
\* handleImmediateViolation or handlePredictedConflict
EnginePair ==
    /\ ~aborted
    /\ tpc[DETECTOR] = "exec"
    /\ dpc = "inner"
    /\ IF ej > Len(aircraftD)
       THEN /\ ei' = ei + 1
            /\ dpc' = "outer"
            /\ UNCHANGED <<ej, last_warning_times_, lastCheck, predLog>>
       ELSE LET outcome == PairOutcome(aircraftD, last_warning_times_, aircraftD[ei],
                                       aircraftD[ej], state1, GetState(aircraftD[ej]), now)
            IN /\ lastCheck' = outcome
               /\ last_warning_times_' =
                      IF outcome.predicted
                      THEN [last_warning_times_ EXCEPT
                                ![CooldownKey(outcome.id1, outcome.id2)] = now]
                      ELSE last_warning_times_
               /\ predLog' = LogPrediction(predLog, outcome)
               /\ ej' = ej + 1
               /\ UNCHANGED <<ei, dpc>>
    /\ UNCHANGED <<aircraftD, state1>>
    /\ UNCHANGED <<pvars, rvars, mvars, cvars, fvars>>

----------------------------------------------------------------------------
(* ViolationDetector of src/core/violation_detector.cpp, first definition *)

\* ViolationDetector::checkPairViolation
CheckPairViolationA(s1, s2) ==
    HorizontalLess(s1.x - s2.x, s1.y - s2.y, MIN_HORIZONTAL_SEPARATION)

\* ViolationDetector::checkFutureViolation: t = 10, 20, ... seconds
CheckFutureViolation(s1, s2) ==
    \E n \in 1..(DEFAULT_LOOKAHEAD_TIME \div 10) :
        LET pos1 == PredictPosition(s1, n * 10000)
            pos2 == PredictPosition(s2, n * 10000)
        IN HorizontalLess(pos1.x - pos2.x, pos1.y - pos2.y, MIN_HORIZONTAL_SEPARATION)

\* checkViolations, one iteration of the inner loop: both states are read, a
\* pair with an EXITING aircraft is skipped, no cooldown is kept
PairOutcomeA(id1, id2, s1, s2, t) ==
    LET skipped == s1.status = "EXITING" \/ s2.status = "EXITING"
        current == ~skipped /\ CheckPairViolationA(s1, s2)
        predicted == ~skipped /\ ~current /\ CheckFutureViolation(s1, s2)
    IN [at |-> t, id1 |-> id1, id2 |-> id2, s1 |-> s1, s2 |-> s2,
        current |-> current, predicted |-> predicted, cooling |-> FALSE,
        resolution |-> FALSE, command |-> NoCommand, alert |-> FALSE]

EnginePairA ==
    /\ ~aborted
    /\ tpc[DETECTOR] = "exec"
    /\ dpc = "inner"
    /\ IF ej > Len(aircraftD)
       THEN /\ ei' = ei + 1
            /\ dpc' = "outer"
            /\ UNCHANGED <<ej, lastCheck, predLog>>
       ELSE LET outcome == PairOutcomeA(aircraftD[ei], aircraftD[ej],
                                        GetState(aircraftD[ei]), GetState(aircraftD[ej]), now)
            IN /\ lastCheck' = outcome
               /\ predLog' = LogPrediction(predLog, outcome)
               /\ ej' = ej + 1
               /\ UNCHANGED <<ei, dpc>>
    /\ UNCHANGED <<aircraftD, last_warning_times_, state1>>
    /\ UNCHANGED <<pvars, rvars, mvars, cvars, fvars>>

----------------------------------------------------------------------------
(* Aircraft::state_mutex_: the operations of Aircraft statement by statement. *)
(* A thread that holds the lock writes one member of state_ per step, and    *)
(* getState() copies state_ in one step once it has the lock.                *)

Unlocked == [owner |-> "free"]

\* Aircraft::Aircraft leaves the lock free
InitStateLocks ==
    /\ state_mutex_ = [c \in Callsigns |-> Unlocked]
    /\ snapshot = [c \in Callsigns |-> NoAircraft]
    /\ committed = [c \in Callsigns |-> NoAircraft]

\* a getState() that copies state_ without waiting for the lock
GetStateLockIgnored(m, c) == TRUE

\* the lock_guard of Aircraft::getState: the copy is taken once the lock is free
GetStateLockFree(m, c) == m[c] = Unlocked

\* Aircraft::getState called by a reader thread; the copy is what it returns
GetStateCopy(c) ==
    /\ ~aborted
    /\ Constructed(c)
    /\ GetStateLockFree(state_mutex_, c)
    /\ snapshot' = [snapshot EXCEPT ![c] = state_[c]]
    /\ UNCHANGED <<state_mutex_, committed>>
    /\ UNCHANGED <<pvars, rvars, dvars, cvars, fvars>>

\* Aircraft::updatePosition, the lock_guard
UpdatePositionLock(c) ==
    /\ ~aborted
    /\ tpc[c] = "exec"
    /\ Constructed(c)
    /\ state_mutex_[c] = Unlocked
    /\ state_mutex_' = [state_mutex_ EXCEPT ![c] = [owner |-> "task", at |-> "new_pos"]]
    /\ UNCHANGED <<snapshot, committed>>
    /\ UNCHANGED <<pvars, rvars, dvars, cvars, fvars>>

\* Aircraft::updatePosition: new_pos and the isValid() test; the valid branch
\* goes on with state_.position = new_pos, the invalid branch sets EXITING,
\* calls stop() and leaves the function, which releases the lock
UpdatePositionMove(c) ==
    /\ ~aborted
    /\ state_mutex_[c] = [owner |-> "task", at |-> "new_pos"]
    /\ LET p == AdvancedPos(state_[c]) IN
       IF AdvanceAccepted(p)
       THEN /\ state_' = [state_ EXCEPT ![c].x = p.x, ![c].y = p.y, ![c].z = p.z]
            /\ state_mutex_' = [state_mutex_ EXCEPT ![c] = [owner |-> "task", at |-> "timestamp"]]
            /\ UNCHANGED <<running_, stopDone, invalidAdvance, tpc, committed>>
       ELSE /\ state_' = [state_ EXCEPT ![c].status = "EXITING"]
            /\ running_' = StopFlag(running_, c)
            /\ invalidAdvance' = invalidAdvance \cup {c}
            /\ state_mutex_' = [state_mutex_ EXCEPT ![c] = Unlocked]
            /\ committed' = [committed EXCEPT ![c] = state_'[c]]
            /\ IF thread_[c] = "joinable"
               THEN /\ tpc' = [tpc EXCEPT ![c] = "catch"]
                    /\ UNCHANGED stopDone
               ELSE /\ tpc' = [tpc EXCEPT ![c] = "sleep"]
                    /\ stopDone' = [stopDone EXCEPT ![c] = TRUE]
    /\ UNCHANGED snapshot
    /\ UNCHANGED <<now, horizon, aborted, thread_, period_, cycleStart, cpc, failedCycle>>
    /\ UNCHANGED <<rvars, dvars, cvars, fvars>>

\* Aircraft::updatePosition: state_.updateTimestamp()
UpdatePositionTimestamp(c) ==
    /\ ~aborted
    /\ state_mutex_[c] = [owner |-> "task", at |-> "timestamp"]
    /\ state_' = [state_ EXCEPT ![c].timestamp = now]
    /\ state_mutex_' = [state_mutex_ EXCEPT ![c] = [owner |-> "task", at |-> "status"]]
    /\ UNCHANGED <<snapshot, committed>>
    /\ UNCHANGED <<now, horizon, aborted, running_, thread_, period_, tpc, cycleStart,
                   cpc, stopDone, invalidAdvance, failedCycle>>
    /\ UNCHANGED <<rvars, dvars, cvars, fvars>>

\* Aircraft::updatePosition: ENTERING becomes CRUISING, and the function
\* returns, which releases the lock
UpdatePositionStatus(c) ==
    /\ ~aborted
    /\ state_mutex_[c] = [owner |-> "task", at |-> "status"]
    /\ state_' = [state_ EXCEPT ![c].status = IF @ = "ENTERING" THEN "CRUISING" ELSE @]
    /\ state_mutex_' = [state_mutex_ EXCEPT ![c] = Unlocked]
    /\ committed' = [committed EXCEPT ![c] = state_'[c]]
    /\ tpc' = [tpc EXCEPT ![c] = "sleep"]
    /\ UNCHANGED snapshot
    /\ UNCHANGED <<now, horizon, aborted, running_, thread_, period_, cycleStart,
                   cpc, stopDone, invalidAdvance, failedCycle>>
    /\ UNCHANGED <<rvars, dvars, cvars, fvars>>

\* the catch block of Aircraft::execute: declareEmergency() under the lock
ExecuteCatchLocked(c) ==
    /\ ~aborted
    /\ tpc[c] = "catch"
    /\ state_mutex_[c] = Unlocked
    /\ state_' = [state_ EXCEPT ![c] = DeclareEmergencyState(@)]
    /\ committed' = [committed EXCEPT ![c] = state_'[c]]
    /\ tpc' = [tpc EXCEPT ![c] = "sleep"]
    /\ UNCHANGED <<state_mutex_, snapshot>>
    /\ UNCHANGED <<now, horizon, aborted, running_, thread_, period_, cycleStart, cpc,
                   stopDone, invalidAdvance, failedCycle>>
    /\ UNCHANGED <<rvars, dvars, cvars, fvars>>

\* Aircraft::updateAltitude called by a command thread: validateAltitude,
\* then the lock_guard
UpdateAltitudeLock(c, alt) ==
    /\ ~aborted
    /\ Constructed(c)
    /\ ValidateAltitude(alt)
    /\ state_mutex_[c] = Unlocked
    /\ state_mutex_' = [state_mutex_ EXCEPT ![c] = [owner |-> "command", at |-> "z", arg |-> alt]]
    /\ UNCHANGED <<snapshot, committed>>
    /\ UNCHANGED <<pvars, rvars, dvars, cvars, fvars>>

\* Aircraft::updateAltitude: state_.position.z = new_altitude
UpdateAltitudeWrite(c) ==
    /\ ~aborted
    /\ state_mutex_[c].owner = "command"
    /\ state_mutex_[c].at = "z"
    /\ state_' = [state_ EXCEPT ![c].z = state_mutex_[c].arg]
    /\ state_mutex_' = [state_mutex_ EXCEPT ![c] = [owner |-> "command", at |-> "timestamp", arg |-> @.arg]]
    /\ UNCHANGED <<snapshot, committed>>
    /\ UNCHANGED <<now, horizon, aborted, running_, thread_, period_, tpc, cycleStart,
                   cpc, stopDone, invalidAdvance, failedCycle>>
    /\ UNCHANGED <<rvars, dvars, cvars, fvars>>

\* Aircraft::updateAltitude: state_.updateTimestamp() and the return, which
\* releases the lock
UpdateAltitudeTimestamp(c) ==
    /\ ~aborted
    /\ state_mutex_[c].owner = "command"
    /\ state_mutex_[c].at = "timestamp"
    /\ state_' = [state_ EXCEPT ![c].timestamp = now]
    /\ state_mutex_' = [state_mutex_ EXCEPT ![c] = Unlocked]
    /\ committed' = [committed EXCEPT ![c] = state_'[c]]
    /\ UNCHANGED snapshot
    /\ UNCHANGED <<now, horizon, aborted, running_, thread_, period_, tpc, cycleStart,
                   cpc, stopDone, invalidAdvance, failedCycle>>
    /\ UNCHANGED <<rvars, dvars, cvars, fvars>>

----------------------------------------------------------------------------
(* OperatorConsole, CommandProcessor and ATCSystem: the path of an operator *)
(* command from the input thread to the aircraft.  A command line is kept   *)
(* as its tokens {command, aircraft_id, param}; a message on the channel is *)
(* {sender, target_id, command, param}.                                     *)

MaxCommands == 3           \* command lines the operator enters

MAX_QUEUE_SIZE == 100
MAX_HISTORY_SIZE == 50
MIN_SPEED == 150
MAX_SPEED == 500

NoMessage == [sender |-> "-"]

\* the well-formed aircraft ids an operator types: those of the fleet and one
\* of no aircraft
TargetIds == Callsigns \cup {"AC001"}

\* OperatorConsole::OperatorConsole, ATCSystem::ATCSystem
InitConsole ==
    /\ command_queue_ = << >>
    /\ command_history_ = << >>
    /\ entered = 0
    /\ processed_commands_ = 0
    /\ displayed_errors = 0
    /\ submitted = [c \in TargetIds |-> << >>]
    /\ sending = NoMessage
    /\ received = NoMessage
    /\ applied = [c \in Callsigns |-> << >>]

\* std::stod on the parameter texts that occur; NotANumber: stod throws
NotANumber == 0 - 1

Stod(text) ==
    CASE text = "16000" -> 16000
      [] text = "999999" -> 999999
      [] text = "300" -> 300
      [] text = "090" -> 90
      [] text = "15000.000000" -> 15000
      [] text = "19000.000000" -> 19000
      [] OTHER -> NotANumber

\* CommandProcessor::validateAircraftId: 3 to 10 alphanumeric characters
ValidateAircraftId(id) == id \in TargetIds

\* CommandProcessor::validateSpeed, Aircraft::validateSpeed
ValidateSpeed(speed) == speed >= MIN_SPEED /\ speed <= MAX_SPEED

\* CommandProcessor::validateHeading, the test of Aircraft::updateHeading
ValidateHeading(heading) == heading >= 0 /\ heading < 360

\* a constructor that marks the message of a successful result as present
CommandResultWithMessage(success, message) ==
    [success |-> success, has_message |-> success /\ message # NoMessage, msg |-> message]

\* CommandProcessor::CommandResult::CommandResult: has_message(false)
CommandResult(success, message) ==
    [success |-> success, has_message |-> FALSE, msg |-> message]

\* CommandProcessor::processCommand and the handler it dispatches to.  Of the
\* registered commands the lines of the model use ALT, SPD, HDG and EMERG.
ProcessCommand(line) ==
    LET id == line.aircraft_id
        value == Stod(line.param)
        Sent(name, param) ==
            CommandResult(TRUE, [sender |-> "OPERATOR", target_id |-> id,
                                 command |-> name, param |-> param])
        Failed == CommandResult(FALSE, NoMessage)
    IN IF line.command \notin {"ALT", "SPD", "HDG", "EMERG"} THEN Failed
       ELSE IF ~ValidateAircraftId(id) THEN Failed
       ELSE IF line.command = "EMERG"
            THEN IF line.param \in {"ON", "OFF"}
                 THEN Sent("EMERGENCY", IF line.param = "ON" THEN "1" ELSE "0")
                 ELSE Failed
       ELSE IF value = NotANumber THEN Failed
       ELSE IF line.command = "ALT"
            THEN IF ValidateAltitude(value) THEN Sent("ALTITUDE", line.param) ELSE Failed
       ELSE IF line.command = "SPD"
            THEN IF ValidateSpeed(value) THEN Sent("SPEED", line.param) ELSE Failed
       ELSE IF ValidateHeading(value) THEN Sent("HEADING", line.param) ELSE Failed

\* a capacity test that lets one command too many in
QueueHasRoomInclusive(q) == Len(q) <= MAX_QUEUE_SIZE

\* OperatorConsole::enqueueCommand: command_queue_.size() < MAX_QUEUE_SIZE
QueueHasRoom(q) == Len(q) < MAX_QUEUE_SIZE

\* OperatorConsole::handleKeypress at Enter with a non-empty buffer, on the
\* input thread: enqueueCommand (a command that finds the queue full is
\* discarded and displayError is called), then addToHistory
HandleKeypress(line) ==
    /\ ~aborted
    /\ entered' = entered + 1
    /\ IF QueueHasRoom(command_queue_)
       THEN /\ command_queue_' = Append(command_queue_, line)
            /\ UNCHANGED displayed_errors
       ELSE /\ displayed_errors' = displayed_errors + 1
            /\ UNCHANGED command_queue_
    /\ command_history_' =
           Append(IF Len(command_history_) >= MAX_HISTORY_SIZE
                  THEN Tail(command_history_) ELSE command_history_, line)
    /\ UNCHANGED <<processed_commands_, submitted, sending, received, applied>>
    /\ UNCHANGED <<pvars, rvars, dvars, mvars, fvars>>

\* a dequeue that takes the command entered last
DequeueNewest(q) == [command |-> q[Len(q)], rest |-> SubSeq(q, 1, Len(q) - 1)]

\* OperatorConsole::dequeueCommand: front() and pop()
DequeueCommand(q) == [command |-> Head(q), rest |-> Tail(q)]

\* a count of the successful commands only
CountSuccessful(n, result) == IF result.success THEN n + 1 ELSE n

\* OperatorConsole::processCommand: processed_commands_++ after either branch
CountProcessed(n, result) == n + 1

\* OperatorConsole::processCommandQueue on the console task's thread, one
\* turn of its loop: dequeueCommand(), processCommand(): the message of a
\* successful result is sent when has_message is set (sendMessage takes the
\* channel), the text of a failed one goes to displayError
ProcessCommandQueue ==
    /\ ~aborted
    /\ command_queue_ # << >>
    /\ command_queue_' = DequeueCommand(command_queue_).rest
    /\ LET result == ProcessCommand(DequeueCommand(command_queue_).command) IN
          /\ IF result.success /\ result.has_message
             THEN /\ sending = NoMessage
                  /\ sending' = result.msg
                  /\ submitted' = [submitted EXCEPT ![result.msg.target_id] = Append(@, result.msg)]
             ELSE UNCHANGED <<sending, submitted>>
          /\ displayed_errors' = IF result.success THEN displayed_errors
                                 ELSE displayed_errors + 1
          /\ processed_commands_' = CountProcessed(processed_commands_, result)
    /\ UNCHANGED <<entered, command_history_, received, applied>>
    /\ UNCHANGED <<pvars, rvars, dvars, mvars, fvars>>

\* ViolationDetector::executeResolutionAction, the other sender of COMMAND
\* messages on the channel: an ALTITUDE command with std::to_string(value)
ExecuteResolutionActionSend(target, text) ==
    /\ ~aborted
    /\ sending = NoMessage
    /\ LET message == [sender |-> "VIOLATION_DETECTOR", target_id |-> target,
                       command |-> "ALTITUDE", param |-> text]
       IN /\ sending' = message
          /\ submitted' = [submitted EXCEPT ![target] = Append(@, message)]
    /\ UNCHANGED <<command_queue_, command_history_, entered, processed_commands_,
                   displayed_errors, received, applied>>
    /\ UNCHANGED <<pvars, rvars, dvars, mvars, fvars>>

\* ATCSystem::processOperatorCommands on the main thread: receiveMessage()
\* takes the message and replies, which lets the sender go on
ProcessOperatorCommands ==
    /\ ~aborted
    /\ received = NoMessage
    /\ sending # NoMessage
    /\ received' = sending
    /\ sending' = NoMessage
    /\ UNCHANGED <<command_queue_, command_history_, entered, processed_commands_,
                   displayed_errors, submitted, applied>>
    /\ UNCHANGED <<pvars, rvars, dvars, mvars, fvars>>

\* ATCSystem::executeOperatorCommand: find the aircraft and call the update
\* the command names; a target that is not there changes nothing.  SPEED and
\* HEADING, which no sender puts on the channel, are the subject of
\* SpecUpdates.
ExecuteOperatorCommand ==
    /\ ~aborted
    /\ received # NoMessage
    /\ received' = NoMessage
    /\ LET c == received.target_id
           value == Stod(received.param)
       IN IF c \in Callsigns /\ Constructed(c)
          THEN /\ applied' = [applied EXCEPT ![c] = Append(@, received)]
               /\ state_' =
                    [state_ EXCEPT ![c] =
                        CASE received.command = "ALTITUDE" /\ ValidateAltitude(value) ->
                                 [@ EXCEPT !.z = value, !.timestamp = now]
                          [] received.command = "EMERGENCY" /\ received.param = "1" ->
                                 DeclareEmergencyState(@)
                          [] received.command = "EMERGENCY" /\ received.param # "1" ->
                                 [@ EXCEPT !.status = "CRUISING"]
                          [] OTHER -> @]
          ELSE UNCHANGED <<state_, applied>>
    /\ UNCHANGED <<command_queue_, command_history_, entered, processed_commands_,
                   displayed_errors, submitted, sending>>
    /\ UNCHANGED <<now, horizon, aborted, running_, thread_, period_, tpc, cycleStart,
                   cpc, stopDone, invalidAdvance, failedCycle>>
    /\ UNCHANGED <<rvars, dvars, mvars, fvars>>

----------------------------------------------------------------------------
(* The minimum-separation solvers as functions of two aircraft states *)

NoResult == [solver |-> "-"]

NoCall == [call |-> "-", n |-> 0]

NoShutdown == [routine |-> "-"]

\* the threads that take locks, none of them inside a function
CONTROLLER == "controller"
LockThreads == Tasks \cup {CONTROLLER}
Idle == [ops |-> << >>, pc |-> 1]
NoLocking == [t \in LockThreads |-> Idle]

\* HistoryLogger after a constructor whose open() failed or succeeded: the
\* mutex free, no state handed over, the thread between two cycles
LOGGER == "logger"
LoggerAfterConstructor(opened) ==
    [file_operational_ |-> opened, file_mutex_ |-> "free", current_states_ |-> 0,
     pc |-> "idle", branch |-> "-", cycles |-> 0, updates |-> 0]
InitialLogger == LoggerAfterConstructor(TRUE)

\* DisplaySystem after its constructor, the controller loading the aircraft
DISPLAY == "display"
InitialDisplay ==
    [display_mutex_ |-> "free", aircraft_ |-> 0, update_count_ |-> 0, task |-> "idle",
     pc |-> "load"]

\* the two definitions of QnxChannel, the threads that poll the channel (the
\* main loop and the console) and those that send on it, and a channel after
\* initialize(): no thread inside it, no message sent
ChannelSources == {"qnx_channel.cpp", "part_016"}
CONSOLE == "console"
Pollers == {CONTROLLER, CONSOLE}
Senders == {DETECTOR, RADAR}
ChannelOf(source) ==
    [source |-> source, channel_mutex_ |-> "free",
     receiver |-> [t \in Pollers |-> "idle"], sender |-> [t \in Senders |-> "idle"],
     polls |-> 0, sends |-> 0, got |-> 0]
InitialChannel == ChannelOf("qnx_channel.cpp")

\* the threads that call start() on one task, none of them inside it, and the
\* task as its constructor leaves it
Callers == {"main", "controller", "console"}
NoStart == [running_ |-> FALSE, thread_ |-> "empty", threads |-> 0, terminated |-> FALSE,
            pc |-> [c \in Callers |-> "idle"], calls |-> [c \in Callers |-> 0],
            refused |-> 0]

\* no solver and no update has been called
InitSolver ==
    /\ solved = NoResult
    /\ heading_ = [c \in Callsigns |-> 0]
    /\ returned = NoCall
    /\ shutdown_ = NoShutdown
    /\ locking = NoLocking
    /\ qnxChannel = InitialChannel
    /\ display_ = InitialDisplay
    /\ logger_ = InitialLogger
    /\ starting = NoStart

\* square of the planar distance between two positions, in units of 10
DistSq10(p1, p2) ==
    (Abs(p1.x - p2.x) \div 10) * (Abs(p1.x - p2.x) \div 10)
        + (Abs(p1.y - p2.y) \div 10) * (Abs(p1.y - p2.y) \div 10)

\* min_separation of predictViolation: the planar distance of the positions
\* predicted for time t (ms)
MinSeparation(s1, s2, t) ==
    10 * SqrtBetween(DistSq10(PredictPosition(s1, t), PredictPosition(s2, t)), 0, 20000)

\* ViolationDetector::calculateTimeToMinimumSeparation of violation_detector.cpp,
\* in ms: -b / (2 a), 0 when negative or when a is 0
CalculateTimeToMinimumSeparationB(s1, s2) ==
    LET dx == (s2.x - s1.x) \div 100
        dy == (s2.y - s1.y) \div 100
        dvx == (s2.vx - s1.vx) \div 100
        dvy == (s2.vy - s1.vy) \div 100
        a == dvx * dvx + dvy * dvy
        bh == dx * dvx + dy * dvy
    IN IF a = 0 THEN 0
       ELSE IF bh > 0 THEN 0
       ELSE (1000 * (0 - bh)) \div a

\* the test of checkViolations in violation_detector.cpp that queues a
\* predicted conflict: time_to_violation < lookahead_time_seconds_ and
\* min_separation < MIN_HORIZONTAL_SEPARATION * EARLY_WARNING_THRESHOLD
PredictedB(s1, s2) ==
    LET t == CalculateTimeToMinimumSeparationB(s1, s2)
        pos1 == PredictPosition(s1, t)
        pos2 == PredictPosition(s2, t)
    IN /\ ~CheckPairViolation(s1, s2)
       /\ t < DEFAULT_LOOKAHEAD_TIME * 1000
       /\ HorizontalLess(pos1.x - pos2.x, pos1.y - pos2.y, MIN_HORIZONTAL_SEPARATION * 3)

\* what a solver returned for the pair (s1, s2), the planar distances at time 0
\* and at the time returned, and whether the engine emits a prediction
Solved(solver, s1, s2, t, predicted) ==
    [solver |-> solver, s1 |-> s1, s2 |-> s2, t_min |-> t,
     h_min |-> MinSeparation(s1, s2, t),
     d_now |-> DistSq10(Pos(s1), Pos(s2)),
     d_min |-> DistSq10(PredictPosition(s1, t), PredictPosition(s2, t)),
     predicted |-> predicted]

\* one pass of checkViolations of violation_detector.cpp (272-309) over the pair
SolveB ==
    /\ solved' = Solved("B", state_[AC1], state_[AC2],
                        CalculateTimeToMinimumSeparationB(state_[AC1], state_[AC2]),
                        PredictedB(state_[AC1], state_[AC2]))
    /\ UNCHANGED <<pvars, rvars, dvars, mvars, cvars, heading_, returned, shutdown_, locking,
                   starting, logger_, display_, qnxChannel>>

\* one pass of checkViolations of aircraft.cpp (178-207) over the pair, no
\* cooldown entry present
SolveC ==
    /\ solved' = Solved("C", state_[AC1], state_[AC2],
                        CalculateTimeToMinimumSeparation(state_[AC1], state_[AC2]),
                        PairOutcome(<<AC1, AC2>>, [k \in Keys |-> NoTime], AC1, AC2,
                                    state_[AC1], state_[AC2], now).predicted)
    /\ UNCHANGED <<pvars, rvars, dvars, mvars, cvars, heading_, returned, shutdown_, locking,
                   starting, logger_, display_, qnxChannel>>

----------------------------------------------------------------------------
(* SpecAircraft: one aircraft, its task and a controlling thread *)

AircraftUnderTest == "A"

CtorPositions ==
    { [x |-> 99000, y |-> 50000, z |-> 20000],
      [x |-> 99500, y |-> 50000, z |-> 20000],
      [x |-> 50000, y |-> 50000, z |-> 24500],
      [x |-> 100500, y |-> 50000, z |-> 20000] }

CtorVelocities ==
    { [vx |-> 1000, vy |-> 0, vz |-> 0],
      [vx |-> 0, vy |-> 0, vz |-> 500] }

AltitudeCommands == {15000, 25000, 26000}

\* the tasks in S have been started; no other task has
InitTasks(S) ==
    /\ now = 0
    /\ aborted = FALSE
    /\ running_ = [t \in Tasks |-> t \in S]
    /\ thread_ = [t \in Tasks |-> IF t \in S THEN "joinable" ELSE "empty"]
    /\ period_ = [t \in Tasks |->
                    IF t \in Callsigns THEN POSITION_UPDATE_INTERVAL
                    ELSE IF t = RADAR THEN SSR_INTERROGATION_INTERVAL
                    ELSE VIOLATION_CHECK_INTERVAL]
    /\ tpc = [t \in Tasks |-> IF t \in S THEN "loop" ELSE "none"]
    /\ cycleStart = [t \in Tasks |-> 0]
    /\ cpc = CtlIdle
    /\ stopDone = [t \in Tasks |-> FALSE]
    /\ invalidAdvance = {}
    /\ failedCycle = {}

\* RadarSystem::RadarSystem
InitRadarSystem ==
    /\ aircraftR = << >>
    /\ tracks_ = [c \in Callsigns |-> NoTrack]
    /\ last_primary_scan_ = 0
    /\ last_secondary_scan_ = 0
    /\ rpc = "primary"
    /\ execNow = 0
    /\ radarStart = -1
    /\ eligible = {}

\* ViolationDetector::ViolationDetector
InitDetector ==
    /\ aircraftD = << >>
    /\ last_warning_times_ = [k \in Keys |-> NoTime]
    /\ dpc = "idle"
    /\ ei = 1
    /\ ej = 1
    /\ state1 = NoAircraft
    /\ lastCheck = NoCheck
    /\ predLog = [pr \in Pairs |-> <<NoTime, NoTime>>]

InitAircraft ==
    /\ InitTasks({})
    /\ state_ = [c \in Callsigns |-> NoAircraft]
    /\ horizon = MaxTimeAircraft * TickMs
    /\ InitRadarSystem
    /\ InitDetector
    /\ InitStateLocks
    /\ InitConsole
    /\ InitSolver

NextAircraft ==
    \/ \E p \in CtorPositions, v \in CtorVelocities : AircraftCtor(AircraftUnderTest, p, v)
    \/ \E alt \in AltitudeCommands : UpdateAltitude(AircraftUnderTest, alt)
    \/ DeclareEmergency(AircraftUnderTest)
    \/ CancelEmergency(AircraftUnderTest)
    \/ (Constructed(AircraftUnderTest) /\ StartSpawn(AircraftUnderTest))
    \/ StartAssign(AircraftUnderTest)
    \/ (Constructed(AircraftUnderTest) /\ StopRequest(AircraftUnderTest))
    \/ StopJoin(AircraftUnderTest)
    \/ RunLoopTest(AircraftUnderTest)
    \/ UpdatePosition(AircraftUnderTest)
    \/ ExecuteCatch(AircraftUnderTest)
    \/ RunSleep(AircraftUnderTest)
    \/ Tick

SpecAircraft == InitAircraft /\ [][NextAircraft]_vars

\* The host scheduler runs every thread that can take a step, and the clock
\* advances; the controlling thread's calls are not forced.
FairAircraftTask(t) ==
    /\ WF_vars(RunLoopTest(t))
    /\ WF_vars(UpdatePosition(t))
    /\ WF_vars(ExecuteCatch(t))
    /\ WF_vars(RunSleep(t))

SpecAircraftFair ==
    SpecAircraft /\ WF_vars(Tick) /\ FairAircraftTask(AircraftUnderTest)

----------------------------------------------------------------------------
(* SpecRadar: the radar task and two aircraft whose tasks have not been started *)

\* AC1 in the middle of the airspace, AC2 just below its ceiling
RadarFleets ==
    { [c \in Callsigns |->
          IF c = AC1 THEN Aircraft0(50000, 50000, 20000, 100, 0, 0)
          ELSE Aircraft0(20000, 20000, 24980, 0, 0, 0)] }

InitRadar ==
    /\ InitTasks({})
    /\ state_ \in RadarFleets
    /\ horizon = MaxTimeRadar * TickMs
    /\ InitRadarSystem
    /\ InitDetector
    /\ InitStateLocks
    /\ InitConsole
    /\ InitSolver

NextRadar ==
    \/ \E c \in Callsigns : RadarAddAircraft(c)
    \/ \E c \in Callsigns : RadarRemoveAircraft(c)
    \/ StartSpawn(RADAR)
    \/ StartAssign(RADAR)
    \/ RunLoopTest(RADAR)
    \/ RadarExecutePrimary
    \/ RadarExecuteSecondary
    \/ RadarUpdateTracks
    \/ RadarCleanupStaleTracks
    \/ ExecuteThrows(RADAR)
    \/ RunSleep(RADAR)
    \/ Tick

SpecRadar == InitRadar /\ [][NextRadar]_vars

----------------------------------------------------------------------------
(* SpecEngineC, SpecEngineA: a detector task, two aircraft, the task of AC2 running *)

\* AC2 closing in on AC1 from 3400 away; AC2 flying away from AC1
EngineFleets ==
    { [c \in Callsigns |->
          IF c = AC1 THEN Aircraft0(50000, 50000, 20000, 0, 0, 0)
          ELSE Aircraft0(53400, 50000, 20000, 0 - 500, 0, 0)],
      [c \in Callsigns |->
          IF c = AC1 THEN Aircraft0(50000, 50000, 20000, 0, 0, 0)
          ELSE Aircraft0(60000, 50000, 20000, 500, 0, 0)] }

\* AC2 closing in on AC1; AC2 above AC1, 5000 higher
EngineFleetsA ==
    { [c \in Callsigns |->
          IF c = AC1 THEN Aircraft0(50000, 50000, 20000, 0, 0, 0)
          ELSE Aircraft0(53400, 50000, 20000, 0 - 500, 0, 0)],
      [c \in Callsigns |->
          IF c = AC1 THEN Aircraft0(50000, 50000, 20000, 0, 0, 0)
          ELSE Aircraft0(50000, 50000, 25000, 0, 0, 0)] }

RemoveArguments == Callsigns \cup Keys

\* the detector task and the task of AC2 have been started
InitEngine ==
    /\ InitTasks({AC2, DETECTOR})
    /\ state_ \in EngineFleets
    /\ horizon = MaxTimeEngine * TickMs
    /\ InitRadarSystem
    /\ InitDetector
    /\ InitStateLocks
    /\ InitConsole
    /\ InitSolver

NextEngineC ==
    \/ \E c \in Callsigns : DetectorAddAircraft(c)
    \/ \E callsign \in RemoveArguments : DetectorRemoveAircraft(callsign)
    \/ RunLoopTest(DETECTOR)
    \/ EngineOuter
    \/ EnginePair
    \/ RunSleep(DETECTOR)
    \/ RunLoopTest(AC2)
    \/ UpdatePosition(AC2)
    \/ RunSleep(AC2)
    \/ Tick

SpecEngineC == InitEngine /\ [][NextEngineC]_vars

NextEngineA ==
    \/ \E c \in Callsigns : DetectorAddAircraft(c)
    \/ \E callsign \in Callsigns : DetectorRemoveAircraft(callsign)
    \/ RunLoopTest(DETECTOR)
    \/ EngineOuter
    \/ EnginePairA
    \/ RunSleep(DETECTOR)
    \/ RunLoopTest(AC2)
    \/ UpdatePosition(AC2)
    \/ RunSleep(AC2)
    \/ Tick

InitEngineA ==
    /\ InitTasks({AC2, DETECTOR})
    /\ state_ \in EngineFleetsA
    /\ horizon = MaxTimeEngine * TickMs
    /\ InitRadarSystem
    /\ InitDetector
    /\ InitStateLocks
    /\ InitConsole
    /\ InitSolver

SpecEngineA == InitEngineA /\ [][NextEngineA]_vars

----------------------------------------------------------------------------
(* Claims about the aircraft task *)

\* the closed airspace volume [0,100000] x [0,100000] x [15000,25000]
InAirspace(s) ==
    /\ 0 <= s.x /\ s.x <= 100000
    /\ 0 <= s.y /\ s.y <= 100000
    /\ 15000 <= s.z /\ s.z <= 25000

\* C4: EXITING is terminal: once an aircraft's status is EXITING, no later
\* cycle or operation changes its status.
C4_ExitingIsTerminal ==
    [][\A c \in Callsigns :
          state_[c].status = "EXITING" => state_'[c].status = "EXITING"]_vars

\* C5: when an advance yields a position outside the airspace, the status is
\* set to EXITING in that step, the task is stopped (running_ is false and no
\* further cycle is entered), and the task's thread terminates.
C5_StoppedAfterExit ==
    \A c \in invalidAdvance :
        /\ ~running_[c]
        /\ tpc[c] \in {"catch", "sleep", "loop", "exited"}

C5_ExitingSet ==
    \A c \in Callsigns :
        (c \notin invalidAdvance /\ c \in invalidAdvance')
            => state_'[c].status = "EXITING"

C5_ExitStopsTask ==
    /\ []C5_StoppedAfterExit
    /\ [][C5_ExitingSet]_vars
    /\ \A c \in Callsigns : (c \in invalidAdvance) ~> (tpc[c] = "exited")

C5_Witness ==
    /\ AircraftUnderTest \in invalidAdvance
    /\ tpc[AircraftUnderTest] = "exited"

\* C6: every observable aircraft state has its position inside the closed
\* airspace volume, or has status EXITING.
C6_PositionValidOrExiting ==
    \A c \in Callsigns :
        Constructed(c) => (InAirspace(GetState(c)) \/ GetState(c).status = "EXITING")

\* a cycle has advanced the aircraft onto the boundary of the volume
C6_Witness ==
    \E c \in Callsigns :
        /\ Constructed(c)
        /\ state_[c].status = "CRUISING"
        /\ state_[c].x = 100000 \/ state_[c].z = 25000

\* C7: stop() returns only after the task's thread has exited: once a call
\* of stop() has returned, no execute() is running and none starts.
C7_StopReturnsAfterExit ==
    \A t \in Tasks : stopDone[t] => tpc[t] \in {"none", "exited"}

----------------------------------------------------------------------------
(* Claims about the separation engine and the radar tracker *)

\* d_h < 3000 and d_v < 1000 for two states
InViolation(s1, s2) ==
    LET dx == s1.x - s2.x
        dy == s1.y - s2.y
        dz == s1.z - s2.z
    IN /\ 0 - 3000 < dx /\ dx < 3000
       /\ 0 - 3000 < dy /\ dy < 3000
       /\ dx * dx + dy * dy < 9000000
       /\ 0 - 1000 < dz /\ dz < 1000

\* C1: in each engine cycle, for every pair of registered aircraft the cycle
\* visits, a current ViolationInfo is emitted if and only if, in the states read
\* for that pair, the horizontal distance is below 3000 and the vertical
\* distance is below 1000.
C1_CurrentIffBothSeparationsLost ==
    lastCheck # NoCheck =>
        (lastCheck.current <=> InViolation(lastCheck.s1, lastCheck.s2))

\* C2: no two predicted-conflict emissions for the same unordered pair of
\* aircraft are less than 15 seconds apart.
C2_PredictionsCooldownApart ==
    \A pr \in Pairs :
        predLog[pr][1] # NoTime => predLog[pr][2] - predLog[pr][1] >= 15 * 1000

\* C3: cooldown suppression never applies to current violations: whenever the
\* states read for a pair have d_h < 3000 and d_v < 1000, the current violation
\* is emitted and resolution is invoked, whatever cooldown entry exists.
C3_CurrentNeverSuppressed ==
    (lastCheck # NoCheck /\ InViolation(lastCheck.s1, lastCheck.s2))
        => (lastCheck.current /\ lastCheck.resolution)

\* a current violation emitted while a cooldown entry of the pair is active
C3_Witness ==
    /\ lastCheck # NoCheck
    /\ lastCheck.current
    /\ lastCheck.resolution
    /\ lastCheck.cooling

\* C8: a cycle whose execute() throws does not terminate the task: the task
\* is still there and goes on to its next activation.
C8_FailedCycleContinues ==
    \A t \in failedCycle : ~aborted /\ tpc[t] \in {"exec", "sleep", "loop"}

\* C9: an aircraft registered with the radar and inside the airspace since the
\* radar task was started is tracked once the radar has run for 5 seconds
\* (its cycles done on time: a primary scan has been made since the start, and
\* the radar is between two cycles).
C9_TrackedAfterFiveSeconds ==
    (/\ ~aborted
     /\ running_[RADAR]
     /\ radarStart >= 0
     /\ now - radarStart >= 5 * 1000
     /\ last_primary_scan_ > radarStart
     /\ tpc[RADAR] = "sleep")
        => \A c \in eligible : InAirspace(state_[c]) => IsAircraftTracked(c)

\* the key k of the cooldown map belongs to a pair that includes callsign c
KeyIncludes(k, c) == \E d \in Callsigns : k = c \o d \/ k = d \o c

\* the callsigns registered in an aircraft_ vector
Registered(reg) == {reg[k] : k \in 1..Len(reg)}

\* C10: after remove(callsign), that is for every callsign that is not
\* registered, the cooldown map holds no entry for a pair that includes the
\* callsign, and the radar holds no track for it.
C10_RemovePurges ==
    /\ \A c \in Callsigns \ Registered(aircraftD) : \A k \in Keys :
           KeyIncludes(k, c) => last_warning_times_[k] = NoTime
    /\ \A c \in Callsigns \ Registered(aircraftR) :
           tracks_[c] = NoTrack /\ ~IsAircraftTracked(c)

\* ---------------------------------------------------------------------------
\* Registration sets
\* ---------------------------------------------------------------------------

\* number of entries of the aircraft_ vector reg whose callsign is c
Occurrences(reg, c) == Cardinality({k \in 1..Len(reg) : reg[k] = c})

\* C11: after any sequence of add/remove, each callsign appears at most once
\* in the violation detector's aircraft set and in the radar's aircraft set
C11_CallsignAtMostOnce ==
    \A c \in Callsigns : Occurrences(aircraftD, c) <= 1 /\ Occurrences(aircraftR, c) <= 1

\* ---------------------------------------------------------------------------
\* Adaptive cadence of the violation detector
\* ---------------------------------------------------------------------------

\* the pair handled last in the running cycle was emitted as a predicted
\* conflict whose prediction has requires_immediate_action set
ImmediateActionPair ==
    /\ lastCheck # NoCheck
    /\ lastCheck.predicted
    /\ PredictViolation(lastCheck.s1, lastCheck.s2).requires_immediate_action

\* C12: a cycle of the violation detector in which a pair requires immediate
\* action ends with the detector's period at 500 ms, half the default
C12_PeriodHalvedOnImmediate ==
    [][(tpc[DETECTOR] = "exec" /\ tpc'[DETECTOR] = "sleep" /\ ImmediateActionPair)
           => period_'[DETECTOR] = VIOLATION_CHECK_INTERVAL \div 2]_vars

----------------------------------------------------------------------------
(* SpecSnapshot: one running aircraft, a command thread that sets altitudes *)
(* and a reader thread that calls getState()                                *)

MaxTimeSnapshot == 2       \* SpecSnapshot runs the clock for this many ticks

SnapshotAltitudes == {15000, 25000}

\* the aircraft is one advance away from the edge of the airspace
InitSnapshot ==
    /\ InitTasks({AircraftUnderTest})
    /\ state_ = [c \in Callsigns |->
                    IF c = AircraftUnderTest
                    THEN Aircraft0(99000, 50000, 20000, 1000, 0, 0)
                    ELSE NoAircraft]
    /\ horizon = MaxTimeSnapshot * TickMs
    /\ InitRadarSystem
    /\ InitDetector
    /\ state_mutex_ = [c \in Callsigns |-> Unlocked]
    /\ snapshot = [c \in Callsigns |-> NoAircraft]
    /\ committed = state_
    /\ InitConsole
    /\ InitSolver

NextSnapshot ==
    \/ RunLoopTest(AircraftUnderTest)
    \/ UpdatePositionLock(AircraftUnderTest)
    \/ UpdatePositionMove(AircraftUnderTest)
    \/ UpdatePositionTimestamp(AircraftUnderTest)
    \/ UpdatePositionStatus(AircraftUnderTest)
    \/ ExecuteCatchLocked(AircraftUnderTest)
    \/ RunSleep(AircraftUnderTest)
    \/ \E alt \in SnapshotAltitudes : UpdateAltitudeLock(AircraftUnderTest, alt)
    \/ UpdateAltitudeWrite(AircraftUnderTest)
    \/ UpdateAltitudeTimestamp(AircraftUnderTest)
    \/ GetStateCopy(AircraftUnderTest)
    \/ Tick

SpecSnapshot == InitSnapshot /\ [][NextSnapshot]_vars

\* C13: every copy getState() returns is the aircraft's state as it was when
\* the latest position advance or update command before the copy was
\* complete, never a state in which an operation has written a part of it
C13_SnapshotNeverPartial ==
    [][\A c \in Callsigns : snapshot'[c] # snapshot[c] => snapshot'[c] = committed[c]]_vars

\* a copy taken after a whole position advance, while a command is halfway
\* through writing the state
C13_Witness ==
    /\ snapshot[AircraftUnderTest] # NoAircraft
    /\ snapshot[AircraftUnderTest].status = "CRUISING"
    /\ snapshot[AircraftUnderTest] = committed[AircraftUnderTest]
    /\ state_mutex_[AircraftUnderTest].owner = "command"
    /\ state_[AircraftUnderTest] # committed[AircraftUnderTest]

----------------------------------------------------------------------------
(* SpecCommands: the operator enters command lines for two aircraft and   *)
(* the detector sends altitude commands for them                          *)

CommandLines ==
    {[command |-> "ALT", aircraft_id |-> AC1, param |-> "16000"],
     [command |-> "SPD", aircraft_id |-> AC1, param |-> "300"],
     [command |-> "HDG", aircraft_id |-> AC2, param |-> "090"],
     [command |-> "EMERG", aircraft_id |-> AC2, param |-> "ON"],
     [command |-> "ALT", aircraft_id |-> "AC001", param |-> "999999"],
     [command |-> "EXIT", aircraft_id |-> "", param |-> ""]}

MaxResolutions == 2        \* commands the detector sends

ResolutionTexts == {"15000.000000", "19000.000000"}

InitCommands ==
    /\ InitTasks({})
    /\ state_ = [c \in Callsigns |->
                    IF c = AC1 THEN Aircraft0(50000, 50000, 20000, 0, 0, 0)
                    ELSE Aircraft0(20000, 20000, 20000, 0, 0, 0)]
    /\ horizon = 0
    /\ InitRadarSystem
    /\ InitDetector
    /\ InitStateLocks
    /\ InitConsole
    /\ InitSolver

NextCommands ==
    \/ \E line \in CommandLines : entered < MaxCommands /\ HandleKeypress(line)
    \/ ProcessCommandQueue
    \/ \E c \in Callsigns, text \in ResolutionTexts :
           /\ Len(submitted[AC1]) + Len(submitted[AC2]) < MaxResolutions
           /\ ExecuteResolutionActionSend(c, text)
    \/ ProcessOperatorCommands
    \/ ExecuteOperatorCommand

SpecCommands == InitCommands /\ [][NextCommands]_vars

\* the messages that name an altitude
AltitudeMessages(messages) ==
    SelectSeq(messages, LAMBDA message : message.command = "ALTITUDE")

----------------------------------------------------------------------------
(* SpecResolution: the detector of aircraft.cpp, AC2 closing in on AC1, and *)
(* altitude commands that bring AC1 near the floor of the airspace          *)

MaxTimeResolution == 1     \* SpecResolution runs the clock for this many ticks

ResolutionAltitudes == {15900, 16000}

\* both aircraft have been added to the detector
InitResolution ==
    /\ InitTasks({AC2, DETECTOR})
    /\ state_ = [c \in Callsigns |->
                    IF c = AC1 THEN Aircraft0(50000, 50000, 20000, 0, 0, 0)
                    ELSE Aircraft0(53400, 50000, 20000, 0 - 500, 0, 0)]
    /\ horizon = MaxTimeResolution * TickMs
    /\ InitRadarSystem
    /\ aircraftD = <<AC1, AC2>>
    /\ last_warning_times_ = [k \in Keys |-> NoTime]
    /\ dpc = "idle"
    /\ ei = 1
    /\ ej = 1
    /\ state1 = NoAircraft
    /\ lastCheck = NoCheck
    /\ predLog = [pr \in Pairs |-> <<NoTime, NoTime>>]
    /\ InitStateLocks
    /\ InitConsole
    /\ InitSolver

NextResolution ==
    \/ \E alt \in ResolutionAltitudes : UpdateAltitude(AC1, alt)
    \/ RunLoopTest(DETECTOR)
    \/ EngineOuter
    \/ EnginePair
    \/ RunSleep(DETECTOR)
    \/ RunLoopTest(AC2)
    \/ UpdatePosition(AC2)
    \/ RunSleep(AC2)
    \/ Tick

SpecResolution == InitResolution /\ [][NextResolution]_vars

\* C15: the altitude command sent for a resolution action carries an altitude
\* within [AIRSPACE_Z_MIN, AIRSPACE_Z_MAX]; for an action whose value lies
\* outside no command is sent
C15_CommandValueValidated ==
    (lastCheck # NoCheck /\ lastCheck.command # NoCommand)
        => /\ lastCheck.command.altitude >= 15000
           /\ lastCheck.command.altitude <= 25000

\* a command at the floor of the airspace has been sent
C15_Witness ==
    /\ lastCheck # NoCheck
    /\ lastCheck.command # NoCommand
    /\ lastCheck.command.altitude = 15000

\* a resolution whose action failed validation: nothing was sent
C15_RejectedReached ==
    /\ lastCheck # NoCheck
    /\ lastCheck.resolution
    /\ lastCheck.id1 # lastCheck.id2
    /\ lastCheck.command = NoCommand

----------------------------------------------------------------------------
(* SpecSolver: the solvers applied to pairs of aircraft states *)

\* A at (0,0,20000) and B at (0,5000,20000), both with velocity (400,0,0)
ParallelTracks ==
    [c \in Callsigns |->
        IF c = AC1 THEN Aircraft0(0, 0, 20000, 400, 0, 0)
        ELSE Aircraft0(0, 5000, 20000, 400, 0, 0)]

\* AC1 at rest in the middle of the airspace, AC2 around it, closing in,
\* passing by and flying away
SolverFleets ==
    { [c \in Callsigns |->
          IF c = AC1 THEN Aircraft0(50000, 50000, 20000, 0, 0, 0)
          ELSE Aircraft0(x, y, 20000, vx, vy, 0)] :
        x \in {48000, 50000, 52000, 53400, 60000}, y \in {50000, 51000, 56000},
        vx \in {0 - 500, 0, 500}, vy \in {0 - 100, 0, 100} }
        \cup {ParallelTracks}

InitSolverFleets ==
    /\ InitTasks({})
    /\ state_ \in SolverFleets
    /\ horizon = 0
    /\ InitRadarSystem
    /\ InitDetector
    /\ InitStateLocks
    /\ InitConsole
    /\ InitSolver

NextSolver == SolveB \/ SolveC

SpecSolver == InitSolverFleets /\ [][NextSolver]_vars

\* C16: the time a planar minimum-separation solver returns is not negative,
\* and the planar distance of the two dead-reckoned positions at that time is
\* no greater than the planar distance at time 0
C16_TminWithinBounds ==
    solved # NoResult => solved.t_min >= 0 /\ solved.d_min <= solved.d_now

\* the solver of violation_detector.cpp alone
SolverBWithinBounds ==
    (solved # NoResult /\ solved.solver = "B")
        => solved.t_min >= 0 /\ solved.d_min <= solved.d_now

\* C17: for A at (0,0,20000) and B at (0,5000,20000), both with velocity
\* (400,0,0), the engine computes t_min = 0 and h_min = 5000 and emits no
\* prediction
C17_ParallelTracksNoPrediction ==
    (solved # NoResult /\ solved.s1 = ParallelTracks[AC1] /\ solved.s2 = ParallelTracks[AC2])
        => /\ solved.t_min = 0
           /\ solved.h_min = 5000
           /\ ~solved.predicted

\* the values the solvers return for the parallel tracks
ParallelTracksValues ==
    (solved # NoResult /\ solved.s1 = ParallelTracks[AC1] /\ solved.s2 = ParallelTracks[AC2])
        => solved.t_min = 0 /\ solved.h_min = 5000

----------------------------------------------------------------------------
(* The cadence of PeriodicTask::run *)

\* C18: the cycle after a cycle that started at `start` never begins before
\* start + period_, and a thread that has returned from execute() when
\* start + period_ has passed goes on to the next cycle without sleeping
C18_NextActivationAtStartPlusPeriod ==
    /\ [][\A t \in Tasks :
             (tpc[t] = "sleep" /\ tpc'[t] = "loop") => now >= cycleStart[t] + period_[t]]_vars
    /\ [](\A t \in Tasks :
             (~aborted /\ tpc[t] = "sleep" /\ now >= cycleStart[t] + period_[t])
                 => ENABLED RunSleep(t))

\* the aircraft has advanced once, its cycle overran the period, and its
\* thread is at the loop test again
C18_Witness ==
    /\ tpc[AircraftUnderTest] = "loop"
    /\ running_[AircraftUnderTest]
    /\ Constructed(AircraftUnderTest)
    /\ state_[AircraftUnderTest].x = 100000
    /\ now > cycleStart[AircraftUnderTest] + period_[AircraftUnderTest]

----------------------------------------------------------------------------
(* The handler of Aircraft::execute *)

\* C19: when updatePosition() has thrown in a cycle, the step with which
\* Aircraft::execute leaves its catch block leaves the aircraft's own status
\* at EMERGENCY
C19_EmergencyOnUpdateFailure ==
    [][\A c \in Callsigns :
          (tpc[c] = "catch" /\ tpc'[c] # "catch") => state_'[c].status = "EMERGENCY"]_vars

\* the cycle whose update threw is over and the status is EMERGENCY
C19_Witness ==
    /\ AircraftUnderTest \in invalidAdvance
    /\ tpc[AircraftUnderTest] = "sleep"
    /\ thread_[AircraftUnderTest] = "joinable"
    /\ state_[AircraftUnderTest].status = "EMERGENCY"

----------------------------------------------------------------------------
(* SpecTrackingLoss: RadarSystemTest.TrackingLoss, with the aircraft one
   period away from the edge of the airspace *)

MaxTimeTracking == 65      \* SpecTrackingLoss runs the clock for this many ticks

\* the time after the exit at which the test asks isAircraftTracked
TRACKING_LOSS_WAIT == 60000

InitTrackingLoss ==
    /\ InitTasks({RADAR, AC1})
    /\ state_ = [c \in Callsigns |->
                    IF c = AC1 THEN Aircraft0(99000, 50000, 20000, 1000, 0, 0)
                    ELSE Aircraft0(20000, 20000, 20000, 0, 0, 0)]
    /\ horizon = MaxTimeTracking * TickMs
    /\ aircraftR = <<AC1>>
    /\ tracks_ = [c \in Callsigns |-> NoTrack]
    /\ last_primary_scan_ = 0
    /\ last_secondary_scan_ = 0
    /\ rpc = "primary"
    /\ execNow = 0
    /\ radarStart = 0
    /\ eligible = {AC1}
    /\ InitDetector
    /\ InitStateLocks
    /\ InitConsole
    /\ InitSolver

\* the clock of an unloaded machine: a thread wakes when its sleep_until is
\* over and its cycle takes less than one tick, so time passes only while
\* every thread is inside sleep_until or has ended
TickBetweenCycles ==
    /\ \A t \in Tasks : \/ tpc[t] \in {"none", "exited"}
                        \/ tpc[t] = "sleep" /\ ~SleepOver(t)
    /\ Tick

NextTrackingLoss ==
    \/ RunLoopTest(RADAR)
    \/ RadarExecutePrimary
    \/ RadarExecuteSecondary
    \/ RadarUpdateTracks
    \/ RadarCleanupStaleTracks
    \/ RunSleep(RADAR)
    \/ RunLoopTest(AC1)
    \/ UpdatePosition(AC1)
    \/ ExecuteCatch(AC1)
    \/ RunSleep(AC1)
    \/ TickBetweenCycles

SpecTrackingLoss == InitTrackingLoss /\ [][NextTrackingLoss]_vars

----------------------------------------------------------------------------
(* What the radar hands out *)

\* RadarSystem::getTrackedAircraft: the state of every track of quality
\* MIN_TRACK_QUALITY or more
GetTrackedAircraft ==
    {tracks_[c] : c \in {d \in Callsigns : IsAircraftTracked(d)}}

NothingHandedOut == GetTrackedAircraft = {}

----------------------------------------------------------------------------
(* SpecQuality: performPrimaryScan and updateTracks applied in any order to a
   track of any quality *)

MaxTimeQuality == 3        \* SpecQuality runs the clock for this many ticks

\* the qualities a sequence of observations and aging steps may start from
StartQualities == {5 * k : k \in 0..20}

InitQuality ==
    /\ InitTasks({})
    /\ state_ \in RadarFleets
    /\ horizon = MaxTimeQuality * TickMs
    /\ aircraftR = <<AC1>>
    /\ \E q \in StartQualities :
          tracks_ = [c \in Callsigns |->
                        IF c = AC1
                        THEN [callsign |-> DefaultCallsign, x |-> 50000, y |-> 50000,
                              z |-> 20000, last_update |-> 0, quality |-> q]
                        ELSE NoTrack]
    /\ last_primary_scan_ = 0
    /\ last_secondary_scan_ = 0
    /\ rpc = "primary"
    /\ execNow = 0
    /\ radarStart = -1
    /\ eligible = {}
    /\ InitDetector
    /\ InitStateLocks
    /\ InitConsole
    /\ InitSolver

\* one primary observation of every registered aircraft
PrimaryObservation ==
    /\ \E noise \in [1..Len(aircraftR) -> RadarNoise] :
          tracks_' = PerformPrimaryScan(tracks_, aircraftR, noise, now, 1)
    /\ UNCHANGED <<aircraftR, last_primary_scan_, last_secondary_scan_, rpc, execNow,
                   radarStart, eligible>>
    /\ UNCHANGED <<pvars, dvars, mvars, cvars, fvars>>

\* one aging step
AgingStep ==
    /\ tracks_' = UpdateTracks(tracks_, now)
    /\ UNCHANGED <<aircraftR, last_primary_scan_, last_secondary_scan_, rpc, execNow,
                   radarStart, eligible>>
    /\ UNCHANGED <<pvars, dvars, mvars, cvars, fvars>>

NextQuality ==
    \/ PrimaryObservation
    \/ AgingStep
    \/ Tick

SpecQuality == InitQuality /\ [][NextQuality]_vars

\* C22: the quality of every track is between 0 and 100
C22_QualityWithinRange ==
    \A c \in Callsigns :
        tracks_[c] # NoTrack => tracks_[c].quality >= 0 /\ tracks_[c].quality <= 100

\* an observation made after the start has left the quality at its cap, and
\* the track is old enough for the next aging step to lower it
C22_Witness ==
    /\ tracks_[AC1] # NoTrack
    /\ tracks_[AC1].last_update > 0
    /\ tracks_[AC1].quality = 100
    /\ now - tracks_[AC1].last_update > 1000

\* C23: the step in which the console processes a valid ALT, SPD, HDG or
\* EMERG line hands exactly one COMMAND message to the channel, addressed to
\* the aircraft id of the line, with the command name of the line's kind and
\* one parameter
C23_OneMessagePerValidCommand ==
    [][\A line \in CommandLines :
          ( /\ command_queue_ # << >>
            /\ Head(command_queue_) = line
            /\ processed_commands_' = processed_commands_ + 1
            /\ ProcessCommand(line).success )
          => /\ sending = NoMessage
             /\ sending' # NoMessage
             /\ sending'.sender = "OPERATOR"
             /\ sending'.target_id = line.aircraft_id
             /\ sending'.command =
                    (CASE line.command = "ALT" -> "ALTITUDE"
                       [] line.command = "SPD" -> "SPEED"
                       [] line.command = "HDG" -> "HEADING"
                       [] OTHER -> "EMERGENCY")
             /\ submitted'[line.aircraft_id] = Append(submitted[line.aircraft_id], sending')
    ]_vars

\* C24: every command line entered is processed exactly once: no more lines
\* are processed than were entered, and when the console has caught up (the
\* queue is empty) the processed-command count is the number entered
C24_ProcessedExactlyOnce ==
    /\ processed_commands_ + Len(command_queue_) = entered
    /\ command_queue_ = << >> => processed_commands_ = entered

\* three lines, one of them rejected, were entered one at a time and have
\* been processed
C24_Witness ==
    /\ entered = 3
    /\ command_queue_ = << >>
    /\ processed_commands_ = 3
    /\ displayed_errors = 1
    /\ \E i \in 1..3 : ~ProcessCommand(command_history_[i]).success
    /\ \E i \in 1..3 : ProcessCommand(command_history_[i]).success

----------------------------------------------------------------------------
(* SpecQueue: the operator enters more command lines than the queue holds *)
(* while the console task processes them at any pace                      *)

MaxSubmitted == 102        \* command lines the operator enters

RepeatedLine == [command |-> "ALT", aircraft_id |-> AC1, param |-> "16000"]

NextQueue ==
    \/ entered < MaxSubmitted /\ HandleKeypress(RepeatedLine)
    \/ ProcessCommandQueue

SpecQueue == InitCommands /\ [][NextQueue]_vars

\* C25: the command queue never holds more than 100 commands, and a command
\* entered while it holds 100 leaves the queue as it is and is answered with
\* a displayed error
C25_QueueCappedAt100 ==
    /\ [](Len(command_queue_) <= 100)
    /\ [][(entered' = entered + 1 /\ Len(command_queue_) = 100)
           => (command_queue_' = command_queue_ /\ displayed_errors' = displayed_errors + 1)]_vars

\* the 101st command was entered at a queue of 100 and discarded
C25_Witness ==
    /\ entered = 101
    /\ processed_commands_ = 0
    /\ Len(command_queue_) = 100
    /\ displayed_errors = 1

----------------------------------------------------------------------------
(* SpecUpdates: updateSpeed, updateHeading and updateAltitude of part_012  *)
(* called on one aircraft.  Headings are multiples of 90 degrees, for      *)
(* which cos and sin are -1, 0 or 1; a speed is kept to the unit.          *)

MaxTimeUpdates == 1        \* SpecUpdates runs the clock for this many ticks
MaxUpdates == 3            \* calls of an update

\* the square root to the nearest integer
Sqrt(n) == (SqrtBetween(4 * n, 0, 8192) + 1) \div 2

CosDeg(heading) ==
    CASE heading = 0 -> 1
      [] heading = 180 -> 0 - 1
      [] OTHER -> 0

SinDeg(heading) ==
    CASE heading = 90 -> 1
      [] heading = 270 -> 0 - 1
      [] OTHER -> 0

\* AircraftState::updateHeading: atan2(vy, vx) in degrees, in [0, 360), of a
\* velocity along an axis
Atan2Deg(vy, vx) ==
    CASE vy > 0 -> 90
      [] vy < 0 -> 270
      [] vx < 0 -> 180
      [] OTHER -> 0

\* Velocity::getSpeed, squared
SpeedSq(s) == s.vx * s.vx + s.vy * s.vy + s.vz * s.vz

\* Velocity::getSpeed
GetSpeed(s) == Sqrt(SpeedSq(s))

\* Velocity::setFromSpeedAndHeading: vz remains unchanged
SetFromSpeedAndHeading(s, speed, heading) ==
    [s EXCEPT !.vx = speed * CosDeg(heading), !.vy = speed * SinDeg(heading)]

\* a heading test that lets 360 through
ValidHeadingInclusive(heading) == heading >= 0 /\ heading <= 360

\* Aircraft::updateHeading: new_heading < 0 || new_heading >= 360 is refused
ValidHeading(heading) == ~(heading < 0 \/ heading >= 360)

\* what a call is recorded as
Returned(call, arg, result, c) ==
    [call |-> call, arg |-> arg, result |-> result, callsign |-> c,
     before |-> state_[c], heading_before |-> heading_[c],
     n |-> returned.n + 1]

\* Aircraft::updateSpeed
UpdateSpeedCall(c, new_speed) ==
    /\ Constructed(c)
    /\ returned' = Returned("updateSpeed", new_speed, ValidateSpeed(new_speed), c)
    /\ IF ValidateSpeed(new_speed)
       THEN state_' = [state_ EXCEPT ![c] =
                         [SetFromSpeedAndHeading(@, new_speed, heading_[c])
                             EXCEPT !.timestamp = now]]
       ELSE UNCHANGED state_
    /\ UNCHANGED heading_

\* Aircraft::updateHeading
UpdateHeadingCall(c, new_heading) ==
    /\ Constructed(c)
    /\ returned' = Returned("updateHeading", new_heading, ValidHeading(new_heading), c)
    /\ IF ValidHeading(new_heading)
       THEN /\ state_' = [state_ EXCEPT ![c] =
                            [SetFromSpeedAndHeading(@, GetSpeed(@), new_heading)
                                EXCEPT !.timestamp = now]]
            /\ heading_' = [heading_ EXCEPT ![c] = new_heading]
       ELSE UNCHANGED <<state_, heading_>>

\* Aircraft::updateAltitude
UpdateAltitudeCall(c, new_altitude) ==
    /\ Constructed(c)
    /\ returned' = Returned("updateAltitude", new_altitude, ValidateAltitude(new_altitude), c)
    /\ IF ValidateAltitude(new_altitude)
       THEN state_' = [state_ EXCEPT ![c] = [@ EXCEPT !.z = new_altitude, !.timestamp = now]]
       ELSE UNCHANGED state_
    /\ UNCHANGED heading_

\* one call of an update by the only thread there is
CallUpdate(c, call, arg) ==
    /\ ~aborted
    /\ CASE call = "updateSpeed" -> UpdateSpeedCall(c, arg)
         [] call = "updateHeading" -> UpdateHeadingCall(c, arg)
         [] OTHER -> UpdateAltitudeCall(c, arg)
    /\ UNCHANGED <<now, horizon, aborted, running_, thread_, period_, tpc, cycleStart,
                   cpc, stopDone, invalidAdvance, failedCycle>>
    /\ UNCHANGED <<rvars, dvars, mvars, cvars, solved, shutdown_, locking, starting, logger_,
                   display_, qnxChannel>>

InitialVelocities ==
    {[vx |-> 400, vy |-> 0, vz |-> 0],
     [vx |-> 0, vy |-> 0 - 300, vz |-> 0],
     [vx |-> 300, vy |-> 0, vz |-> 400]}

SpeedArguments == {149, 150, 300, 500, 501}
HeadingArguments == {0 - 1, 0, 90, 180, 270, 360}
AltitudeArguments == {14999, 15000, 19000, 25000, 25001}

\* Aircraft::Aircraft: the heading is computed from the velocity
InitUpdates ==
    /\ InitTasks({})
    /\ \E v \in InitialVelocities :
          /\ state_ = [c \in Callsigns |->
                          IF c = AircraftUnderTest
                          THEN Aircraft0(50000, 50000, 20000, v.vx, v.vy, v.vz)
                          ELSE Aircraft0(20000, 20000, 20000, 0, 0, 0)]
          /\ heading_ = [c \in Callsigns |->
                            IF c = AircraftUnderTest THEN Atan2Deg(v.vy, v.vx) ELSE 0]
    /\ horizon = MaxTimeUpdates * TickMs
    /\ InitRadarSystem
    /\ InitDetector
    /\ InitStateLocks
    /\ InitConsole
    /\ solved = NoResult
    /\ returned = NoCall
    /\ shutdown_ = NoShutdown
    /\ locking = NoLocking
    /\ qnxChannel = InitialChannel
    /\ display_ = InitialDisplay
    /\ logger_ = InitialLogger
    /\ starting = NoStart

CallsLeft == returned.n < MaxUpdates

NextUpdates ==
    \/ \E s \in SpeedArguments : CallsLeft /\ CallUpdate(AircraftUnderTest, "updateSpeed", s)
    \/ \E h \in HeadingArguments : CallsLeft /\ CallUpdate(AircraftUnderTest, "updateHeading", h)
    \/ \E a \in AltitudeArguments : CallsLeft /\ CallUpdate(AircraftUnderTest, "updateAltitude", a)
    \/ Tick

SpecUpdates == InitUpdates /\ [][NextUpdates]_vars

\* C26: an update whose argument is out of bounds (a speed outside
\* [150, 500], a heading outside [0, 360), an altitude outside
\* [15000, 25000]) returns false and leaves the state of the aircraft,
\* heading and timestamp included, as it was before the call
C26_OutOfBoundsUpdateRefused ==
    ( /\ returned # NoCall
      /\ \/ returned.call = "updateSpeed" /\ (returned.arg < 150 \/ returned.arg > 500)
         \/ returned.call = "updateHeading" /\ (returned.arg < 0 \/ returned.arg >= 360)
         \/ returned.call = "updateAltitude" /\ (returned.arg < 15000 \/ returned.arg > 25000) )
    => /\ returned.result = FALSE
       /\ state_[returned.callsign] = returned.before
       /\ heading_[returned.callsign] = returned.heading_before

\* updateHeading(360) was refused after the clock had moved on from the
\* timestamp of the state, which an earlier update had changed
C26_Witness ==
    /\ returned # NoCall
    /\ returned.call = "updateHeading"
    /\ returned.arg = 360
    /\ returned.result = FALSE
    /\ returned.n = 2
    /\ state_[AircraftUnderTest].vx = 300
    /\ state_[AircraftUnderTest].timestamp < now

\* C27: after a successful updateSpeed(s) the speed of the state, getSpeed(),
\* is within 0.1 of s, and the heading is the one before the call
C27_SpeedSetHeadingKept ==
    ( /\ returned # NoCall
      /\ returned.call = "updateSpeed"
      /\ returned.result )
    => /\ 100 * SpeedSq(state_[returned.callsign]) >= (10 * returned.arg - 1) * (10 * returned.arg - 1)
       /\ 100 * SpeedSq(state_[returned.callsign]) <= (10 * returned.arg + 1) * (10 * returned.arg + 1)
       /\ heading_[returned.callsign] = returned.heading_before

----------------------------------------------------------------------------
(* SpecShutdown: the three shutdown routines of the repository, statement *)
(* by statement.  A component that was not created is a null pointer and  *)
(* is skipped; stop() returns when the component's thread has been joined.*)

MaxAircraftShutdown == 2   \* aircraft in aircraft_ at shutdown

\* MainSystem::shutdown
MainSystemShutdown ==
    <<"History", "Operator", "Display", "Separation", "Radar", "Aircraft", "Channel">>

\* ATCSystem::cleanup of part_019
ATCSystemCleanup ==
    <<"Radar", "History", "Display", "Operator", "Separation", "Aircraft", "Channel">>

\* ATCSystem::cleanup of main.cpp, whose ATCSystem has no console and no radar
ATCSystemCleanupMain ==
    <<"History", "Display", "Separation", "Aircraft", "Channel">>

Routine(name) ==
    CASE name = "MainSystem::shutdown" -> MainSystemShutdown
      [] name = "ATCSystem::cleanup" -> ATCSystemCleanup
      [] OTHER -> ATCSystemCleanupMain

StoppableComponents == {"History", "Display", "Operator", "Separation", "Radar"}

InitShutdown ==
    /\ InitTasks({})
    /\ state_ = [c \in Callsigns |-> NoAircraft]
    /\ horizon = 0
    /\ InitRadarSystem
    /\ InitDetector
    /\ InitStateLocks
    /\ InitConsole
    /\ solved = NoResult
    /\ heading_ = [c \in Callsigns |-> 0]
    /\ returned = NoCall
    /\ locking = NoLocking
    /\ qnxChannel = InitialChannel
    /\ display_ = InitialDisplay
    /\ logger_ = InitialLogger
    /\ starting = NoStart
    /\ \E name \in {"MainSystem::shutdown", "ATCSystem::cleanup", "ATCSystem::cleanup (main.cpp)"},
          present \in SUBSET StoppableComponents, n \in 0..MaxAircraftShutdown :
          /\ present \subseteq {Routine(name)[i] : i \in 1..Len(Routine(name))}
          /\ shutdown_ = [routine |-> name, present |-> present, aircraft |-> n,
                          pc |-> 1, stopped |-> << >>]

\* the statement at position pc of a routine: the stop() of a component that
\* is there, the loop that stops every aircraft, or channel_.reset()
ShutdownStatement(sd) ==
    LET component == Routine(sd.routine)[sd.pc]
    IN [sd EXCEPT !.pc = @ + 1,
                  !.stopped =
                      CASE component = "Aircraft" -> @ \o [i \in 1..sd.aircraft |-> "Aircraft"]
                        [] component = "Channel" -> Append(@, "Channel")
                        [] component \in sd.present -> Append(@, component)
                        [] OTHER -> @]

ShutdownStep(name) ==
    /\ shutdown_.routine = name
    /\ shutdown_.pc <= Len(Routine(name))
    /\ shutdown_' = ShutdownStatement(shutdown_)
    /\ UNCHANGED <<pvars, rvars, dvars, mvars, cvars, solved, heading_, returned, locking, starting,
                   logger_, display_, qnxChannel>>

NextShutdown ==
    \/ ShutdownStep("MainSystem::shutdown")
    \/ ShutdownStep("ATCSystem::cleanup")
    \/ ShutdownStep("ATCSystem::cleanup (main.cpp)")

SpecShutdown == InitShutdown /\ [][NextShutdown]_vars

\* the place of a component in the order History, Display, Operator,
\* Separation, Radar, Aircraft tasks, Channel
ShutdownRank(component) ==
    CASE component = "History" -> 1
      [] component = "Display" -> 2
      [] component = "Operator" -> 3
      [] component = "Separation" -> 4
      [] component = "Radar" -> 5
      [] component = "Aircraft" -> 6
      [] OTHER -> 7

\* C28: the components are stopped in the order History, Display, Operator,
\* Separation, Radar, Aircraft tasks, Channel: no component is stopped after
\* one that comes later in that order
C28_ShutdownOrder ==
    \A i, j \in 1..Len(shutdown_.stopped) :
        i < j => ShutdownRank(shutdown_.stopped[i]) <= ShutdownRank(shutdown_.stopped[j])

----------------------------------------------------------------------------
(* Claims about the snapshot of the separation engine *)

\* ViolationDetector::checkViolations: std::lock_guard on mutex_, the lock of
\* the registry aircraft_, from the entry of the function to its return
RegistryLockHeld == dpc # "idle"

\* the state that an evaluated pair used for an aircraft
StatesUsed(check, callsign) ==
    (IF check.id1 = callsign THEN {check.s1} ELSE {}) \cup
    (IF check.id2 = callsign THEN {check.s2} ELSE {})

\* C30: when the engine evaluates a pair, the registry lock has been
\* released, and the state it uses for an aircraft is the state the pair
\* evaluated before it in the same cycle used for that aircraft
C30_OneSnapshotPerCycle ==
    [][(dpc = "inner" /\ ej' = ej + 1)
        => /\ ~RegistryLockHeld
           /\ lastCheck # NoCheck =>
                 \A c \in Callsigns :
                     Cardinality(StatesUsed(lastCheck, c) \cup StatesUsed(lastCheck', c)) <= 1
    ]_vars

----------------------------------------------------------------------------
(* SpecLocks: the mutexes of the detector (mutex_), of the radar            *)
(* (radar_mutex_) and of the aircraft (state_mutex_), and the functions     *)
(* that take them, as the sequences of lock and unlock operations they      *)
(* perform with both aircraft registered.  A std::lock_guard is a lock at   *)
(* its declaration and an unlock at the end of its scope.                   *)

StateLock(c) == "state_mutex_ " \o c
StateLocks == {StateLock(c) : c \in Callsigns}
RegistryLocks == {"mutex_", "radar_mutex_"}

Lock(l) == [op |-> "lock", lock |-> l]
Unlock(l) == [op |-> "unlock", lock |-> l]
LockGuard(l, scope) == <<Lock(l)>> \o scope \o <<Unlock(l)>>

\* Aircraft::getState
GetStateOps(c) == LockGuard(StateLock(c), << >>)

\* an updatePosition that reports to the detector while it holds the state lock
UpdatePositionOpsReporting(c) == LockGuard(StateLock(c), LockGuard("mutex_", << >>))

\* Aircraft::updatePosition, and likewise updateSpeed, updateHeading,
\* updateAltitude, declareEmergency and cancelEmergency: the state lock and,
\* under it, the logger
UpdatePositionOps(c) == LockGuard(StateLock(c), << >>)

\* ViolationDetector::checkViolations over aircraft_ = <<AC1, AC2>>: state1
\* of i = 0, state2 of j = 1, state1 of i = 1
CheckViolationsOps ==
    LockGuard("mutex_", GetStateOps(AC1) \o GetStateOps(AC2) \o GetStateOps(AC2))

\* ViolationDetector::addAircraft, which logs aircraft->getState().callsign
DetectorAddAircraftOps(c) == LockGuard("mutex_", GetStateOps(c))

\* RadarSystem::performPrimaryScan over aircraft_ = <<AC1, AC2>>
PerformPrimaryScanOps == LockGuard("radar_mutex_", GetStateOps(AC1) \o GetStateOps(AC2))

\* RadarSystem::updateTracks, cleanupStaleTracks, isAircraftTracked
UpdateTracksOps == LockGuard("radar_mutex_", << >>)

\* RadarSystem::addAircraft, which logs aircraft->getState().callsign
RadarAddAircraftOps(c) == LockGuard("radar_mutex_", GetStateOps(c))

\* the functions a thread runs: an aircraft task its own update; the radar
\* and the detector task their cycle; the controller (the main thread) the
\* registrations, the queries and the commands
FunctionsOf(t) ==
    CASE t \in Callsigns -> {UpdatePositionOps(t)}
      [] t = RADAR -> {PerformPrimaryScanOps, UpdateTracksOps}
      [] t = DETECTOR -> {CheckViolationsOps}
      [] OTHER -> UNION {{GetStateOps(c), UpdatePositionOps(c), DetectorAddAircraftOps(c),
                          RadarAddAircraftOps(c)} : c \in Callsigns}
                  \cup {UpdateTracksOps}

\* the locks a thread holds: locked and not yet unlocked
Held(t) ==
    LET done == SubSeq(locking[t].ops, 1, locking[t].pc - 1)
    IN {l \in StateLocks \cup RegistryLocks :
           Cardinality({i \in 1..Len(done) : done[i] = Lock(l)})
               > Cardinality({i \in 1..Len(done) : done[i] = Unlock(l)})}

\* the lock a thread is about to take, or "-"
Wants(t) ==
    IF locking[t].pc <= Len(locking[t].ops) /\ locking[t].ops[locking[t].pc].op = "lock"
    THEN locking[t].ops[locking[t].pc].lock
    ELSE "-"

Free(l) == \A t \in LockThreads : l \notin Held(t)

Waiting(t) == Wants(t) # "-" /\ ~Free(Wants(t))

Advance(t) ==
    IF locking[t].pc = Len(locking[t].ops)
    THEN [locking EXCEPT ![t] = Idle]
    ELSE [locking EXCEPT ![t].pc = @ + 1]

\* a thread enters a function
Call(t, ops) ==
    /\ locking[t] = Idle
    /\ locking' = [locking EXCEPT ![t] = [ops |-> ops, pc |-> 1]]
    /\ UNCHANGED <<pvars, rvars, dvars, mvars, cvars, solved, heading_, returned, shutdown_,
                   starting, logger_, display_, qnxChannel>>

\* std::mutex::lock: the thread goes on when the mutex is free
LockStep(t) ==
    /\ Wants(t) # "-"
    /\ Free(Wants(t))
    /\ locking' = Advance(t)
    /\ UNCHANGED <<pvars, rvars, dvars, mvars, cvars, solved, heading_, returned, shutdown_,
                   starting, logger_, display_, qnxChannel>>

\* std::mutex::unlock at the end of the scope of the lock_guard
UnlockStep(t) ==
    /\ locking[t].pc <= Len(locking[t].ops)
    /\ locking[t].ops[locking[t].pc].op = "unlock"
    /\ locking' = Advance(t)
    /\ UNCHANGED <<pvars, rvars, dvars, mvars, cvars, solved, heading_, returned, shutdown_,
                   starting, logger_, display_, qnxChannel>>

InitLocks ==
    /\ InitTasks({})
    /\ state_ = [c \in Callsigns |->
                    IF c = AC1 THEN Aircraft0(50000, 50000, 20000, 0, 0, 0)
                    ELSE Aircraft0(20000, 20000, 20000, 0, 0, 0)]
    /\ horizon = 0
    /\ InitRadarSystem
    /\ InitDetector
    /\ InitStateLocks
    /\ InitConsole
    /\ InitSolver

NextLocks ==
    \/ \E t \in LockThreads : \E ops \in FunctionsOf(t) : Call(t, ops)
    \/ \E t \in LockThreads : LockStep(t)
    \/ \E t \in LockThreads : UnlockStep(t)

SpecLocks == InitLocks /\ [][NextLocks]_vars

----------------------------------------------------------------------------
(* The test that turns a solver's result into a prediction *)

\* C32: for a pair that is not in current violation a prediction is produced
\* if and only if the time of minimum separation is below the lookahead
\* (180 s) and the minimum separation is below 3.0 times the horizontal minimum
C32_PredictionIffWithinLookahead ==
    (solved # NoResult /\ ~CheckPairViolation(solved.s1, solved.s2))
        => (solved.predicted
              <=> /\ solved.t_min < DEFAULT_LOOKAHEAD_TIME * 1000
                  /\ solved.h_min < 3 * MIN_HORIZONTAL_SEPARATION)

\* the engine of violation_detector.cpp alone
C32_EngineBAlone ==
    (solved # NoResult /\ solved.solver = "B" /\ ~CheckPairViolation(solved.s1, solved.s2))
        => (solved.predicted
              <=> /\ solved.t_min < DEFAULT_LOOKAHEAD_TIME * 1000
                  /\ solved.h_min < 3 * MIN_HORIZONTAL_SEPARATION)

----------------------------------------------------------------------------
(* SpecConflict: the detector of aircraft.cpp over two registered aircraft    *)
(* that keep their states, for longer than two cooldown periods               *)

MaxTimeConflict == 33      \* SpecConflict runs the clock for this many ticks

\* AC1 at rest; AC2 74 s from the 3000 circle around AC1, AC2 0.8 s from it,
\* AC2 inside it at the same level, and both inside it near the floor
ConflictFleets ==
    { [c \in Callsigns |->
          IF c = AC1 THEN Aircraft0(50000, 50000, 20000, 0, 0, 0)
          ELSE Aircraft0(90000, 50000, 20000, 0 - 500, 0, 0)],
      [c \in Callsigns |->
          IF c = AC1 THEN Aircraft0(50000, 50000, 20000, 0, 0, 0)
          ELSE Aircraft0(53400, 50000, 20000, 0 - 500, 0, 0)],
      [c \in Callsigns |->
          IF c = AC1 THEN Aircraft0(50000, 50000, 20000, 0, 0, 0)
          ELSE Aircraft0(52000, 50000, 20000, 0 - 500, 0, 0)],
      [c \in Callsigns |->
          IF c = AC1 THEN Aircraft0(50000, 50000, 15500, 0, 0, 0)
          ELSE Aircraft0(52000, 50000, 15500, 0 - 500, 0, 0)] }

\* both aircraft have been added to the detector, in either order, and the
\* detector task has been started
InitConflict ==
    /\ InitTasks({DETECTOR})
    /\ state_ \in ConflictFleets
    /\ horizon = MaxTimeConflict * TickMs
    /\ InitRadarSystem
    /\ aircraftD \in {<<AC1, AC2>>, <<AC2, AC1>>}
    /\ last_warning_times_ = [k \in Keys |-> NoTime]
    /\ dpc = "idle"
    /\ ei = 1
    /\ ej = 1
    /\ state1 = NoAircraft
    /\ lastCheck = NoCheck
    /\ predLog = [pr \in Pairs |-> <<NoTime, NoTime>>]
    /\ InitStateLocks
    /\ InitConsole
    /\ InitSolver

NextConflict ==
    \/ \E callsign \in Callsigns : DetectorRemoveAircraft(callsign)
    \/ RunLoopTest(DETECTOR)
    \/ EngineOuter
    \/ EnginePair
    \/ RunSleep(DETECTOR)
    \/ TickBetweenCycles

SpecConflict == InitConflict /\ [][NextConflict]_vars

\* The clock of the model stops at the horizon, the detector does not: past
\* the horizon `now` stands for "the horizon or later", sleep_until returns
\* and the while loop begins the next cycle as before.
RunSleepLate(t) ==
    /\ ~aborted
    /\ tpc[t] = "sleep"
    /\ now = horizon
    /\ ~SleepOver(t)
    /\ tpc' = [tpc EXCEPT ![t] = "loop"]
    /\ UNCHANGED <<now, horizon, aborted, state_, running_, thread_, period_, cycleStart,
                   cpc, stopDone, invalidAdvance, failedCycle>>
    /\ UNCHANGED <<rvars, dvars, mvars, cvars, fvars>>

RunLoopTestLate(t) ==
    /\ ~aborted
    /\ tpc[t] = "loop"
    /\ running_[t]
    /\ now = horizon
    /\ tpc' = [tpc EXCEPT ![t] = "exec"]
    /\ cycleStart' = [cycleStart EXCEPT ![t] = now]
    /\ UNCHANGED <<now, horizon, aborted, state_, running_, thread_, period_, cpc,
                   stopDone, invalidAdvance, failedCycle>>
    /\ UNCHANGED <<rvars, dvars, mvars, cvars, fvars>>

NextConflictFair ==
    \/ NextConflict
    \/ RunSleepLate(DETECTOR)
    \/ RunLoopTestLate(DETECTOR)

\* the detector task and the clock keep running: every statement of run() and
\* of checkViolations that can be executed is executed, and the inner loop, a
\* for loop over the registry, is left again and again
SpecConflictFair ==
    /\ InitConflict
    /\ [][NextConflictFair]_vars
    /\ WF_vars(TickBetweenCycles)
    /\ WF_vars(RunLoopTest(DETECTOR))
    /\ WF_vars(RunLoopTestLate(DETECTOR))
    /\ WF_vars(EngineOuter)
    /\ WF_vars(RunSleep(DETECTOR))
    /\ WF_vars(RunSleepLate(DETECTOR))
    /\ []<>(dpc # "inner")

\* C31: when a predicted conflict of a pair is not suppressed by the cooldown,
\* then in that cycle resolution actions are generated, an ALERT message is
\* sent and the cooldown entry of the pair is set to the current time
C31_UnsuppressedPredictionHandled ==
    (lastCheck # NoCheck /\ lastCheck.predicted)
        => /\ lastCheck.resolution
           /\ lastCheck.alert
           /\ last_warning_times_[CooldownKey(lastCheck.id1, lastCheck.id2)] = lastCheck.at

\* the same without the ALERT
C31_ResolutionAndEntry ==
    (lastCheck # NoCheck /\ lastCheck.predicted)
        => /\ lastCheck.resolution
           /\ last_warning_times_[CooldownKey(lastCheck.id1, lastCheck.id2)] = lastCheck.at

\* a predicted conflict that requires immediate action was handled with an ALERT
C31_AlertReached ==
    lastCheck # NoCheck /\ lastCheck.predicted /\ lastCheck.alert

\* a cooldown entry whose last warning is more than twice the cooldown old
StaleEntry(k) ==
    /\ last_warning_times_[k] # NoTime
    /\ now - last_warning_times_[k] > 2 * WARNING_COOLDOWN * 1000

\* C33: a cooldown entry whose last warning is more than twice the cooldown
\* (30 s) old is eventually removed, so that no entry stays in the map for ever
C33_StaleEntryEventuallyRemoved ==
    (\E k \in Keys : StaleEntry(k)) ~> (\A k \in Keys : ~StaleEntry(k))

\* under the fairness of SpecConflictFair the cycles of the detector recur for
\* ever and the clock reaches the horizon
C33_CyclesRecur ==
    /\ []<>(tpc[DETECTOR] = "exec")
    /\ []<>(tpc[DETECTOR] = "sleep")
    /\ <>(now = horizon)

\* an entry leaves the map only through removeAircraft, when the callsign
\* removed is itself a key
C33_OnlyRemoveAircraftErases ==
    [][\A k \in Keys :
          (last_warning_times_[k] # NoTime /\ last_warning_times_'[k] = NoTime)
              => (dpc = "idle" /\ k \in Callsigns)]_vars

\* C34: whenever a current violation between two registered aircraft is
\* detected, at least one resolution command for that pair is sent in the
\* same cycle
C34_CurrentViolationCommanded ==
    (lastCheck # NoCheck /\ lastCheck.current /\ lastCheck.id1 # lastCheck.id2)
        => lastCheck.command # NoCommand

\* a current violation for which a command was sent
C34_CommandReached ==
    /\ lastCheck # NoCheck
    /\ lastCheck.current
    /\ lastCheck.command # NoCommand

\* C40: the cooldown entry consulted for a predicted conflict is that of the
\* unordered pair: once the conflict of the pair presented as (X, Y) has been
\* handled, the entry consulted for the pair presented as (Y, X) is the one
\* just written
C40_EntryOfUnorderedPair ==
    (lastCheck # NoCheck /\ lastCheck.predicted)
        => last_warning_times_[CooldownKey(lastCheck.id2, lastCheck.id1)] = lastCheck.at

\* handling a predicted conflict writes no entry but the one of its key
C40_OneEntryWritten ==
    [][\A k \in Keys :
          (dpc = "inner" /\ last_warning_times_'[k] # last_warning_times_[k])
              => k = CooldownKey(aircraftD[ei], aircraftD[ej])]_vars

----------------------------------------------------------------------------
(* SpecStart: PeriodicTask::start called on one task by three threads, statement *)
(* by statement                                                                *)

MaxStarts == 2             \* calls of start() per calling thread

\* start(): the test if (!running_), an atomic load
StartTestBy(c) ==
    /\ ~starting.terminated
    /\ starting.pc[c] = "idle"
    /\ starting.calls[c] < MaxStarts
    /\ starting' =
          IF starting.running_
          THEN [starting EXCEPT !.calls[c] = @ + 1, !.refused = @ + 1]
          ELSE [starting EXCEPT !.calls[c] = @ + 1, !.pc[c] = "set"]
    /\ UNCHANGED <<pvars, rvars, dvars, mvars, cvars, solved, heading_, returned, shutdown_,
                   locking, logger_, display_, qnxChannel>>

\* start(): running_ = true
StartSetBy(c) ==
    /\ ~starting.terminated
    /\ starting.pc[c] = "set"
    /\ starting' = [starting EXCEPT !.running_ = TRUE, !.pc[c] = "thread"]
    /\ UNCHANGED <<pvars, rvars, dvars, mvars, cvars, solved, heading_, returned, shutdown_,
                   locking, logger_, display_, qnxChannel>>

\* start(): std::thread(&PeriodicTask::run, this) creates a thread that runs run()
StartThreadBy(c) ==
    /\ ~starting.terminated
    /\ starting.pc[c] = "thread"
    /\ starting' = [starting EXCEPT !.threads = @ + 1, !.pc[c] = "assign"]
    /\ UNCHANGED <<pvars, rvars, dvars, mvars, cvars, solved, heading_, returned, shutdown_,
                   locking, logger_, display_, qnxChannel>>

\* start(): the move-assignment to thread_. Assigning to a joinable std::thread
\* calls std::terminate(); two assignments at the same time are a data race,
\* after which the process may or may not go on
StartAssignBy(c) ==
    /\ ~starting.terminated
    /\ starting.pc[c] = "assign"
    /\ \E terminated \in
            IF starting.thread_ = "joinable" THEN {TRUE}
            ELSE IF \E other \in Callers \ {c} : starting.pc[other] = "assign"
                 THEN {TRUE, FALSE}
                 ELSE {FALSE} :
          starting' = [starting EXCEPT !.thread_ = "joinable", !.terminated = terminated,
                                       !.pc[c] = "idle"]
    /\ UNCHANGED <<pvars, rvars, dvars, mvars, cvars, solved, heading_, returned, shutdown_,
                   locking, logger_, display_, qnxChannel>>

InitStart ==
    /\ InitTasks({})
    /\ state_ = [c \in Callsigns |-> NoAircraft]
    /\ horizon = 0
    /\ InitRadarSystem
    /\ InitDetector
    /\ InitStateLocks
    /\ InitConsole
    /\ InitSolver

NextStart ==
    \E c \in Callers :
        \/ StartTestBy(c)
        \/ StartSetBy(c)
        \/ StartThreadBy(c)
        \/ StartAssignBy(c)

SpecStart == InitStart /\ [][NextStart]_vars

\* C35: a periodic task has at most one execution thread: start() on a task
\* that is running has no effect, also when two threads call start() at the
\* same time
C35_AtMostOneThread ==
    /\ starting.threads <= 1
    /\ ~starting.terminated

\* a start() that finds running_ set changes nothing
C35_StartWhileRunningNoEffect ==
    [][\A c \in Callers :
          (starting.running_ /\ starting.pc[c] = "idle" /\ starting'.calls[c] # starting.calls[c])
              => /\ starting'.running_ = starting.running_
                 /\ starting'.thread_ = starting.thread_
                 /\ starting'.threads = starting.threads
                 /\ starting'.pc[c] = "idle"]_vars

\* a start() that returned without effect
C35_RefusedReached == starting.refused > 0 /\ starting.threads = 1

----------------------------------------------------------------------------
(* SpecLogger: the task of the HistoryLogger and a thread that hands it the   *)
(* aircraft, over a file whose open() and writes may fail                     *)

MaxLoggerCycles == 3       \* cycles of HistoryLogger::execute
MaxStateUpdates == 2       \* calls of updateAircraftStates

\* a thread that locks a std::mutex it owns: the behaviour is undefined, the
\* thread waits for itself for ever or lock() throws std::system_error
RelockOutcomes == {"blocks", "throws"}

\* writeHeader called from reopenFile, with file_mutex_ held by execute():
\* std::lock_guard<std::mutex> lock(file_mutex_) by the owner. An exception
\* leaves execute() from the first branch (run() has no handler: the process
\* ends) and is caught in the second (file_operational_ = false, return)
WriteHeader(l, outcome) ==
    IF l.file_mutex_ # LOGGER
    THEN [l EXCEPT !.pc = "idle", !.branch = "-"]
    ELSE IF outcome = "blocks" THEN [l EXCEPT !.pc = "blocked"]
    ELSE IF l.branch = "not operational" THEN [l EXCEPT !.pc = "terminated"]
    ELSE [l EXCEPT !.pc = "idle", !.branch = "-", !.file_mutex_ = "free",
                   !.file_operational_ = FALSE]

\* HistoryLogger::execute: lock_guard on file_mutex_
ExecuteLock ==
    /\ logger_.pc = "idle"
    /\ logger_.file_mutex_ = "free"
    /\ logger_.cycles < MaxLoggerCycles
    /\ logger_' = [logger_ EXCEPT !.pc = "exec", !.file_mutex_ = LOGGER, !.cycles = @ + 1]
    /\ UNCHANGED <<pvars, rvars, dvars, mvars, cvars, solved, heading_, returned, shutdown_,
                   locking, starting, display_, qnxChannel>>

\* HistoryLogger::execute after the lock: the test of file_operational_, and
\* writeStateEntry when there are states; a write that fails sets
\* file_operational_ = false and the failbit
ExecuteBody ==
    /\ logger_.pc = "exec"
    /\ \E failed \in BOOLEAN :
          logger_' =
             IF ~logger_.file_operational_
             THEN [logger_ EXCEPT !.pc = "reopen", !.branch = "not operational"]
             ELSE IF logger_.current_states_ = 0
             THEN [logger_ EXCEPT !.pc = "idle", !.file_mutex_ = "free"]
             ELSE IF failed
             THEN [logger_ EXCEPT !.pc = "reopen", !.branch = "write failed",
                                  !.file_operational_ = FALSE]
             ELSE [logger_ EXCEPT !.pc = "idle", !.file_mutex_ = "free"]
    /\ UNCHANGED <<pvars, rvars, dvars, mvars, cvars, solved, heading_, returned, shutdown_,
                   locking, starting, display_, qnxChannel>>

\* HistoryLogger::reopenFile up to the call of writeHeader: close, clear, open;
\* when the file is not open execute() returns
ReopenFile ==
    /\ logger_.pc = "reopen"
    /\ \E opened \in BOOLEAN :
          logger_' =
             IF opened
             THEN [logger_ EXCEPT !.pc = "header", !.file_operational_ = TRUE]
             ELSE [logger_ EXCEPT !.pc = "idle", !.branch = "-", !.file_mutex_ = "free",
                                  !.file_operational_ = FALSE]
    /\ UNCHANGED <<pvars, rvars, dvars, mvars, cvars, solved, heading_, returned, shutdown_,
                   locking, starting, display_, qnxChannel>>

\* HistoryLogger::reopenFile: the call of writeHeader
ReopenWriteHeader ==
    /\ logger_.pc = "header"
    /\ \E outcome \in RelockOutcomes : logger_' = WriteHeader(logger_, outcome)
    /\ UNCHANGED <<pvars, rvars, dvars, mvars, cvars, solved, heading_, returned, shutdown_,
                   locking, starting, display_, qnxChannel>>

\* HistoryLogger::updateAircraftStates(aircraft), called by another thread:
\* lock_guard on file_mutex_, current_states_ replaced by n states
UpdateAircraftStates(n) ==
    /\ logger_.pc # "terminated"
    /\ logger_.file_mutex_ = "free"
    /\ logger_.updates < MaxStateUpdates
    /\ logger_' = [logger_ EXCEPT !.current_states_ = n, !.updates = @ + 1]
    /\ UNCHANGED <<pvars, rvars, dvars, mvars, cvars, solved, heading_, returned, shutdown_,
                   locking, starting, display_, qnxChannel>>

InitLogger ==
    /\ InitTasks({})
    /\ state_ = [c \in Callsigns |-> NoAircraft]
    /\ horizon = 0
    /\ InitRadarSystem
    /\ InitDetector
    /\ InitStateLocks
    /\ InitConsole
    /\ solved = NoResult
    /\ heading_ = [c \in Callsigns |-> 0]
    /\ returned = NoCall
    /\ shutdown_ = NoShutdown
    /\ locking = NoLocking
    /\ qnxChannel = InitialChannel
    /\ display_ = InitialDisplay
    /\ starting = NoStart
    /\ \E opened \in BOOLEAN : logger_ = LoggerAfterConstructor(opened)

NextLogger ==
    \/ ExecuteLock
    \/ ExecuteBody
    \/ ReopenFile
    \/ ReopenWriteHeader
    \/ \E n \in 0..2 : UpdateAircraftStates(n)

SpecLogger == InitLogger /\ [][NextLogger]_vars

\* C36: a cycle of the history logger that finds the file not operational, or
\* whose write failed, attempts a reopen and returns: it never waits for the
\* logger's own file lock, and the lock is free again for later cycles and
\* for updateAircraftStates
C36_ReopenCycleReturns ==
    /\ logger_.pc \notin {"blocked", "terminated"}
    /\ logger_.pc = "idle" => logger_.file_mutex_ = "free"

\* a cycle whose reopen failed returns and leaves the lock free
C36_FailedReopenReturns ==
    [][(logger_.pc = "reopen" /\ logger_'.pc = "idle") => logger_'.file_mutex_ = "free"]_vars

\* a cycle that attempted a reopen has returned
C36_ReturnedAfterReopen ==
    /\ logger_.pc = "idle"
    /\ logger_.cycles > 0
    /\ ~logger_.file_operational_

----------------------------------------------------------------------------
(* SpecDisplay: the main loop of ATCSystem::run calling updateDisplay, and the *)
(* task of the DisplaySystem                                                   *)

MaxDisplayCycles == 4      \* cycles of the display task
MaxAircraftDisplayed == 2  \* length of the aircraft list handed over

\* DisplaySystem::execute called by a thread: lock_guard on display_mutex_.
\* The caller that owns the mutex waits for itself for ever, or lock() throws
\* and the exception leaves updateDisplay and ATCSystem::run, which has no handler
ExecuteCalledBy(d, caller, outcome) ==
    IF d.display_mutex_ # caller
    THEN [d EXCEPT !.update_count_ = @ + 1]
    ELSE IF outcome = "blocks" THEN [d EXCEPT !.pc = "blocked"]
    ELSE [d EXCEPT !.pc = "left", !.display_mutex_ = "free"]

\* DisplaySystem::updateDisplay(current_aircraft): lock_guard on display_mutex_
\* and aircraft_ = current_aircraft
UpdateDisplayLock(n) ==
    /\ display_.pc = "loop"
    /\ display_.display_mutex_ = "free"
    /\ display_' = [display_ EXCEPT !.pc = "execute", !.display_mutex_ = CONTROLLER,
                                    !.aircraft_ = n]
    /\ UNCHANGED <<pvars, rvars, dvars, mvars, cvars, solved, heading_, returned, shutdown_,
                   locking, starting, logger_, qnxChannel>>

\* DisplaySystem::updateDisplay: the call execute()
UpdateDisplayExecute ==
    /\ display_.pc = "execute"
    /\ \E outcome \in RelockOutcomes :
          display_' = ExecuteCalledBy(display_, CONTROLLER, outcome)
    /\ UNCHANGED <<pvars, rvars, dvars, mvars, cvars, solved, heading_, returned, shutdown_,
                   locking, starting, logger_, qnxChannel>>

\* the cycle of the display task: PeriodicTask::run calls execute(), which
\* takes display_mutex_
DisplayTaskLock ==
    /\ display_.task = "idle"
    /\ display_.update_count_ < MaxDisplayCycles
    /\ display_.display_mutex_ = "free"
    /\ display_' = [display_ EXCEPT !.task = "exec", !.display_mutex_ = DISPLAY]
    /\ UNCHANGED <<pvars, rvars, dvars, mvars, cvars, solved, heading_, returned, shutdown_,
                   locking, starting, logger_, qnxChannel>>

\* DisplaySystem::execute in the display task: update_count_++, the screen is
\* drawn, the lock is released
DisplayTaskDraw ==
    /\ display_.task = "exec"
    /\ display_' = [display_ EXCEPT !.task = "idle", !.display_mutex_ = "free",
                                    !.update_count_ = @ + 1]
    /\ UNCHANGED <<pvars, rvars, dvars, mvars, cvars, solved, heading_, returned, shutdown_,
                   locking, starting, logger_, qnxChannel>>

\* DisplaySystem::addAircraft while the system is loaded: lock_guard on
\* display_mutex_, one more aircraft in aircraft_
DisplayAddAircraft ==
    /\ display_.pc = "load"
    /\ display_.aircraft_ < MaxAircraftDisplayed
    /\ display_.display_mutex_ = "free"
    /\ display_' = [display_ EXCEPT !.aircraft_ = @ + 1]
    /\ UNCHANGED <<pvars, rvars, dvars, mvars, cvars, solved, heading_, returned, shutdown_,
                   locking, starting, logger_, qnxChannel>>

\* ATCSystem::run enters its main loop
MainLoopEntered ==
    /\ display_.pc = "load"
    /\ display_' = [display_ EXCEPT !.pc = "loop"]
    /\ UNCHANGED <<pvars, rvars, dvars, mvars, cvars, solved, heading_, returned, shutdown_,
                   locking, starting, logger_, qnxChannel>>

InitDisplay ==
    /\ InitTasks({})
    /\ state_ = [c \in Callsigns |-> NoAircraft]
    /\ horizon = 0
    /\ InitRadarSystem
    /\ InitDetector
    /\ InitStateLocks
    /\ InitConsole
    /\ InitSolver

NextDisplay ==
    \/ \E n \in 0..MaxAircraftDisplayed : UpdateDisplayLock(n)
    \/ UpdateDisplayExecute
    \/ DisplayTaskLock
    \/ DisplayTaskDraw
    \/ DisplayAddAircraft
    \/ MainLoopEntered

SpecDisplay == InitDisplay /\ [][NextDisplay]_vars

\* C37: updateDisplay(aircraft) always returns: it never waits for the
\* display's own lock, and the main loop of the controller that calls it goes on
C37_UpdateDisplayReturns == display_.pc \notin {"blocked", "left"}

\* the main loop has come to the call of execute() inside updateDisplay
C37_CallReached == display_.pc = "execute" /\ display_.update_count_ > 0

----------------------------------------------------------------------------
(* SpecChannel: threads that poll a QnxChannel with receiveMessage(msg, 0)    *)
(* and threads that send on the same channel                                  *)

MaxPolls == 4              \* calls of receiveMessage(msg, 0)
MaxSends == 4              \* calls of sendMessage

\* receiveMessage(message, 0) up to the kernel call: qnx_channel.cpp takes
\* channel_mutex_, part_016 tests is_server_ and takes no lock
ReceiveMessageCall(t) ==
    /\ qnxChannel.receiver[t] = "idle"
    /\ qnxChannel.polls < MaxPolls
    /\ qnxChannel.source = "qnx_channel.cpp" => qnxChannel.channel_mutex_ = "free"
    /\ qnxChannel' = [qnxChannel EXCEPT
                         !.receiver[t] = "MsgReceive",
                         !.polls = @ + 1,
                         !.channel_mutex_ =
                             IF qnxChannel.source = "qnx_channel.cpp" THEN t ELSE @]
    /\ UNCHANGED <<pvars, rvars, dvars, mvars, cvars, solved, heading_, returned, shutdown_,
                   locking, starting, logger_, display_>>

\* MsgReceive(channel_id_, ...) without a timeout: it returns with the message
\* of a thread that is blocked in MsgSend, the receiver replies and returns
\* true; while no thread is sending it does not return
MsgReceive(t) ==
    /\ qnxChannel.receiver[t] \in {"MsgReceive", "receive blocked"}
    /\ IF \E s \in Senders : qnxChannel.sender[s] = "MsgSend"
       THEN \E s \in Senders :
               /\ qnxChannel.sender[s] = "MsgSend"
               /\ qnxChannel' = [qnxChannel EXCEPT
                                    !.receiver[t] = "idle", !.sender[s] = "replied",
                                    !.got = @ + 1,
                                    !.channel_mutex_ = IF @ = t THEN "free" ELSE @]
       ELSE /\ qnxChannel.receiver[t] = "MsgReceive"
            /\ qnxChannel' = [qnxChannel EXCEPT !.receiver[t] = "receive blocked"]
    /\ UNCHANGED <<pvars, rvars, dvars, mvars, cvars, solved, heading_, returned, shutdown_,
                   locking, starting, logger_, display_>>

\* sendMessage up to the kernel call: lock_guard on channel_mutex_, then
\* MsgSend, which blocks until the message has been received and replied to
SendMessageCall(s) ==
    /\ qnxChannel.sender[s] = "idle"
    /\ qnxChannel.sends < MaxSends
    /\ qnxChannel.channel_mutex_ = "free"
    /\ qnxChannel' = [qnxChannel EXCEPT !.sender[s] = "MsgSend", !.sends = @ + 1,
                                        !.channel_mutex_ = s]
    /\ UNCHANGED <<pvars, rvars, dvars, mvars, cvars, solved, heading_, returned, shutdown_,
                   locking, starting, logger_, display_>>

\* sendMessage after the reply: return true, the lock is released
SendMessageReturn(s) ==
    /\ qnxChannel.sender[s] = "replied"
    /\ qnxChannel' = [qnxChannel EXCEPT !.sender[s] = "idle", !.channel_mutex_ = "free"]
    /\ UNCHANGED <<pvars, rvars, dvars, mvars, cvars, solved, heading_, returned, shutdown_,
                   locking, starting, logger_, display_>>

InitChannel ==
    /\ InitTasks({})
    /\ state_ = [c \in Callsigns |-> NoAircraft]
    /\ horizon = 0
    /\ InitRadarSystem
    /\ InitDetector
    /\ InitStateLocks
    /\ InitConsole
    /\ solved = NoResult
    /\ heading_ = [c \in Callsigns |-> 0]
    /\ returned = NoCall
    /\ shutdown_ = NoShutdown
    /\ locking = NoLocking
    /\ starting = NoStart
    /\ logger_ = InitialLogger
    /\ display_ = InitialDisplay
    /\ \E source \in ChannelSources : qnxChannel = ChannelOf(source)

NextChannel ==
    \/ \E t \in Pollers : ReceiveMessageCall(t)
    \/ \E t \in Pollers : MsgReceive(t)
    \/ \E s \in Senders : SendMessageCall(s)
    \/ \E s \in Senders : SendMessageReturn(s)

SpecChannel == InitChannel /\ [][NextChannel]_vars

\* a thread waits inside MsgReceive although no message is pending
PollBlocked(t) ==
    /\ qnxChannel.receiver[t] = "receive blocked"
    /\ \A s \in Senders : qnxChannel.sender[s] # "MsgSend"

\* C38: receiveMessage(msg, 0) never blocks: when no message is pending it
\* returns false at once and releases the channel lock, so that a sendMessage
\* on the same channel is never kept waiting by a poll
C38_PollNeverBlocks ==
    \A t \in Pollers :
        /\ ~PollBlocked(t)
        /\ qnxChannel.receiver[t] = "receive blocked" => qnxChannel.channel_mutex_ # t

\* the poll of qnx_channel.cpp waits for a message with the lock held, and no
\* thread can send one
C38_PollAndSendersStuck ==
    /\ qnxChannel.source = "qnx_channel.cpp"
    /\ \E t \in Pollers : PollBlocked(t) /\ qnxChannel.channel_mutex_ = t

\* through the channel of qnx_channel.cpp no message ever arrives
C38_NothingReceivedUnderLock ==
    qnxChannel.source = "qnx_channel.cpp" => qnxChannel.got = 0

\* the poll of part_016 has returned true with a message
C38_MessageReceived == qnxChannel.source = "part_016" /\ qnxChannel.got > 0

----------------------------------------------------------------------------
(* SpecEmergency: resolution actions of the detector of aircraft.cpp, sent  *)
(* as COMMAND messages and executed by ATCSystem::executeOperatorCommand    *)

MaxActions == 2            \* resolution actions the detector sends a command for

\* comm::commands::EMERGENCY_ON
EMERGENCY_ON == "ON"

\* the resolution actions: a target, a type, a value
ActionTypes == {"ALTITUDE_CHANGE", "EMERGENCY_STOP"}
ActionValues == {14000, 15000, 19000}
ResolutionActions ==
    [aircraft_id : Callsigns, action_type : ActionTypes, value : ActionValues]

\* std::to_string of the values that occur
StdToString(value) ==
    CASE value = 14000 -> "14000.000000"
      [] value = 15000 -> "15000.000000"
      [] value = 19000 -> "19000.000000"

\* ViolationDetector::validateResolutionAction by the type of the action
ValidateResolutionActionOf(action) ==
    CASE action.action_type = "ALTITUDE_CHANGE" -> ValidateResolutionAction(action.value)
      [] action.action_type = "EMERGENCY_STOP" -> TRUE

\* the command and the parameter of the message for an action
CommandDataOf(action) ==
    [command |-> IF action.action_type = "EMERGENCY_STOP" THEN "EMERGENCY" ELSE "ALTITUDE",
     param |-> IF action.action_type = "EMERGENCY_STOP" THEN EMERGENCY_ON
               ELSE StdToString(action.value)]

\* ViolationDetector::executeResolutionAction: an action that fails the
\* validation sends nothing; sendMessage blocks until the message is received
ExecuteResolutionAction(action) ==
    /\ ~aborted
    /\ sending = NoMessage
    /\ LET cmd_data == CommandDataOf(action)
           message == [sender |-> "VIOLATION_DETECTOR", target_id |-> action.aircraft_id,
                       command |-> cmd_data.command, param |-> cmd_data.param]
       IN IF ValidateResolutionActionOf(action)
          THEN /\ sending' = message
               /\ submitted' = [submitted EXCEPT ![action.aircraft_id] = Append(@, message)]
          ELSE UNCHANGED <<sending, submitted>>
    /\ UNCHANGED <<command_queue_, command_history_, entered, processed_commands_,
                   displayed_errors, received, applied>>
    /\ UNCHANGED <<pvars, rvars, dvars, mvars, fvars>>

\* the aircraft fly; one that met a failure of its own is in EMERGENCY
InitEmergency ==
    /\ InitTasks({})
    /\ \E status \in [Callsigns -> {"CRUISING", "EMERGENCY"}] :
          state_ = [c \in Callsigns |->
                       [(IF c = AC1 THEN Aircraft0(50000, 50000, 20000, 0, 0, 0)
                         ELSE Aircraft0(20000, 20000, 20000, 0, 0, 0))
                        EXCEPT !.status = status[c]]]
    /\ horizon = 0
    /\ InitRadarSystem
    /\ InitDetector
    /\ InitStateLocks
    /\ InitConsole
    /\ InitSolver

NextEmergency ==
    \/ \E action \in ResolutionActions :
           /\ Len(submitted[AC1]) + Len(submitted[AC2]) < MaxActions
           /\ ExecuteResolutionAction(action)
    \/ ProcessOperatorCommands
    \/ ExecuteOperatorCommand

SpecEmergency == InitEmergency /\ [][NextEmergency]_vars

\* the command executed last for c is an EMERGENCY command of the detector
DetectorEmergencyExecuted(c) ==
    /\ applied[c] # << >>
    /\ applied[c][Len(applied[c])].sender = "VIOLATION_DETECTOR"
    /\ applied[c][Len(applied[c])].command = "EMERGENCY"

C39_EmergencyCancelled ==
    /\ DetectorEmergencyExecuted(AC1)
    /\ Len(applied[AC1]) = 1
    /\ state_[AC1].status = "CRUISING"

\* an EMERGENCY command of the detector never carries the parameter "1", and
\* executing one always leaves the target CRUISING
C39_EmergencyStopCancels ==
    /\ \A c \in Callsigns : \A i \in 1..Len(submitted[c]) :
           submitted[c][i].command = "EMERGENCY" => submitted[c][i].param = EMERGENCY_ON
    /\ \A c \in Callsigns : DetectorEmergencyExecuted(c) => state_[c].status = "CRUISING"

====
